---- MODULE Spec2Model ----
(***************************************************************************)
(* Caltrain commuter app: the transit schedule resolution engine of        *)
(* lib/gtfs-static (src/unnamed/part_001) and the trip-delay helpers of    *)
(* src/lib/gtfs-realtime.ts.                                               *)
(*                                                                         *)
(* Units and encodings.  An instant is a whole number of seconds since     *)
(* 1970-01-01T00:00:00Z (the source holds milliseconds; every input of the *)
(* model is a whole second, so x ms = 1000 * x s throughout).  A GTFS date *)
(* string YYYYMMDD is the integer it denotes (the source compares the      *)
(* strings for equality and the parseInt values for order).  A GTFS clock  *)
(* string HH:MM:SS is the triple <<HH, MM, SS>> that split(':') yields.    *)
(***************************************************************************)
EXTENDS Integers, Sequences, FiniteSets, TLC

VARIABLES gtfsCache, args, trains, ret, pc, clock, apiKey, loads

vars == <<gtfsCache, args, trains, ret, pc, clock, apiKey, loads>>

\* Date.now(), process.env.TRANSIT_API_KEY and the record of the load attempts
\* made; they matter to fetchGTFSData only.
storeVars == <<clock, apiKey, loads>>

\* No credential and no load attempted.
StoreIdle == clock = 0 /\ apiKey = FALSE /\ loads = <<>>

NULL == "null"

(***************************************************************************)
(* Civil calendar arithmetic of the JavaScript Date object.                *)
(***************************************************************************)

\* Day number (days since 1970-01-01) of a proleptic Gregorian date, as
\* new Date(y, m - 1, d) and the ISO parser of new Date(string) compute it.
DaysFromCivil(y, m, d) ==
  LET FromEra(era, yoe, doy) ==
        era * 146097 + (yoe * 365 + yoe \div 4 - yoe \div 100 + doy) - 719468
      FromYear(yy, mp) ==
        FromEra(yy \div 400, yy % 400, (153 * mp + 2) \div 5 + d - 1)
  IN  FromYear(IF m <= 2 THEN y - 1 ELSE y, IF m > 2 THEN m - 3 ELSE m + 9)

\* The date <<year, month, day>> of a day number, as getFullYear, getMonth + 1
\* and getDate read it back.
CivilFromDays(z) ==
  LET Date(y, m, d) == <<IF m <= 2 THEN y + 1 ELSE y, m, d>>
      FromMp(y, doy, mp) ==
        Date(y, IF mp < 10 THEN mp + 3 ELSE mp - 9, doy - (153 * mp + 2) \div 5 + 1)
      FromDoy(y, doy) == FromMp(y, doy, (5 * doy + 2) \div 153)
      FromYoe(era, doe, yoe) ==
        FromDoy(yoe + era * 400, doe - (365 * yoe + yoe \div 4 - yoe \div 100))
      FromDoe(era, doe) ==
        FromYoe(era, doe, (doe - doe \div 1460 + doe \div 36524 - doe \div 146096) \div 365)
      FromZ(zz) == FromDoe(zz \div 146097, zz % 146097)
  IN  FromZ(z + 719468)

\* Date.getDay of a day number: 0 = Sunday .. 6 = Saturday.
DayOfWeek(z) == (z + 4) % 7

\* The instant of a UTC wall-clock reading.
UTC(y, m, d, h, mi, s) == DaysFromCivil(y, m, d) * 86400 + h * 3600 + mi * 60 + s

(***************************************************************************)
(* America/Los_Angeles: daylight time from the 2nd Sunday of March 02:00   *)
(* PST (10:00 UTC) to the 1st Sunday of November 02:00 PDT (09:00 UTC).    *)
(***************************************************************************)

\* Day number of the n-th Sunday of month m of year y.
NthSunday(y, m, n) ==
  LET From(first) == first + ((7 - DayOfWeek(first)) % 7) + 7 * (n - 1)
  IN  From(DaysFromCivil(y, m, 1))

IsPDT(t) ==
  LET InYear(y) == /\ t >= NthSunday(y, 3, 2) * 86400 + 10 * 3600
                   /\ t <  NthSunday(y, 11, 1) * 86400 + 9 * 3600
  IN  InYear(CivilFromDays(t \div 86400)[1])

\* Seconds to add to a UTC instant to get the Pacific wall clock.
PacificOffset(t) == IF IsPDT(t) THEN -7 * 3600 ELSE -8 * 3600

\* date.toLocaleDateString('en-US', {timeZone: 'America/Los_Angeles', ...})
\* .split('/') rearranged as <<year, month, day>>.
PacificDateParts(t) == CivilFromDays((t + PacificOffset(t)) \div 86400)

\* Date.getDay of the Pacific wall clock of the instant.
PacificDayOfWeek(t) == DayOfWeek((t + PacificOffset(t)) \div 86400)

getPacificTimeInfo(date) ==
  LET Info(parts) ==
        [dayOfWeek |-> PacificDayOfWeek(date),
         dateStr   |-> parts[1] * 10000 + parts[2] * 100 + parts[3]]
  IN  Info(PacificDateParts(date))

(***************************************************************************)
(* Calendar resolver.                                                      *)
(***************************************************************************)

dayNames == <<"sunday", "monday", "tuesday", "wednesday", "thursday", "friday", "saturday">>

\* calendarDates.find(cd => cd.date === dateStr && cd.exception_type === '1')
\* from position i on: the index of the first such entry, 0 for undefined.
RECURSIVE FindAdded(_, _, _)
FindAdded(calendarDates, dateStr, i) ==
  IF i > Len(calendarDates) THEN 0
  ELSE IF calendarDates[i].date = dateStr /\ calendarDates[i].exception_type = "1" THEN i
  ELSE FindAdded(calendarDates, dateStr, i + 1)

\* calendarDates.find(cd => cd.date === dateStr && cd.service_id === service_id
\* && cd.exception_type === '2') from position i on, 0 for undefined.
RECURSIVE FindRemoved(_, _, _, _)
FindRemoved(calendarDates, dateStr, service_id, i) ==
  IF i > Len(calendarDates) THEN 0
  ELSE IF /\ calendarDates[i].date = dateStr
          /\ calendarDates[i].service_id = service_id
          /\ calendarDates[i].exception_type = "2" THEN i
  ELSE FindRemoved(calendarDates, dateStr, service_id, i + 1)

\* ScanCalendar with the range end taken as exclusive.
RECURSIVE ScanCalendar_ExclusiveEnd(_, _, _, _, _)
ScanCalendar_ExclusiveEnd(calendar, calendarDates, dayOfWeek, dateStr, i) ==
  IF i > Len(calendar) THEN NULL
  ELSE
    LET cal == calendar[i]
        removed == FindRemoved(calendarDates, dateStr, cal.service_id, 1)
    IN  IF dateStr < cal.start_date \/ dateStr >= cal.end_date
          THEN ScanCalendar_ExclusiveEnd(calendar, calendarDates, dayOfWeek, dateStr, i + 1)
        ELSE IF removed # 0
          THEN ScanCalendar_ExclusiveEnd(calendar, calendarDates, dayOfWeek, dateStr, i + 1)
        ELSE IF cal[dayNames[dayOfWeek + 1]] = "1"
          THEN cal.service_id
        ELSE ScanCalendar_ExclusiveEnd(calendar, calendarDates, dayOfWeek, dateStr, i + 1)

\* The weekly scan that goes on after a match and returns the last one.
RECURSIVE ScanCalendar_LastMatch(_, _, _, _, _)
ScanCalendar_LastMatch(calendar, calendarDates, dayOfWeek, dateStr, i) ==
  IF i > Len(calendar) THEN NULL
  ELSE
    LET cal == calendar[i]
        removed == FindRemoved(calendarDates, dateStr, cal.service_id, 1)
        rest == ScanCalendar_LastMatch(calendar, calendarDates, dayOfWeek, dateStr, i + 1)
    IN  IF dateStr < cal.start_date \/ dateStr > cal.end_date THEN rest
        ELSE IF removed # 0 THEN rest
        ELSE IF cal[dayNames[dayOfWeek + 1]] = "1" /\ rest = NULL THEN cal.service_id
        ELSE rest

\* ScanCalendar without the lookup of a 'removed' exception.
RECURSIVE ScanCalendar_IgnoreRemoved(_, _, _, _, _)
ScanCalendar_IgnoreRemoved(calendar, calendarDates, dayOfWeek, dateStr, i) ==
  IF i > Len(calendar) THEN NULL
  ELSE
    LET cal == calendar[i]
    IN  IF dateStr < cal.start_date \/ dateStr > cal.end_date
          THEN ScanCalendar_IgnoreRemoved(calendar, calendarDates, dayOfWeek, dateStr, i + 1)
        ELSE IF cal[dayNames[dayOfWeek + 1]] = "1"
          THEN cal.service_id
        ELSE ScanCalendar_IgnoreRemoved(calendar, calendarDates, dayOfWeek, dateStr, i + 1)

\* The "for (const cal of calendar)" loop from row i on.
RECURSIVE ScanCalendar(_, _, _, _, _)
ScanCalendar(calendar, calendarDates, dayOfWeek, dateStr, i) ==
  IF i > Len(calendar) THEN NULL
  ELSE
    LET cal == calendar[i]
        removed == FindRemoved(calendarDates, dateStr, cal.service_id, 1)
    IN  IF dateStr < cal.start_date \/ dateStr > cal.end_date
          THEN ScanCalendar(calendar, calendarDates, dayOfWeek, dateStr, i + 1)
        ELSE IF removed # 0
          THEN ScanCalendar(calendar, calendarDates, dayOfWeek, dateStr, i + 1)
        ELSE IF cal[dayNames[dayOfWeek + 1]] = "1"
          THEN cal.service_id
        ELSE ScanCalendar(calendar, calendarDates, dayOfWeek, dateStr, i + 1)

\* getActiveServiceId with the weekly scan tried before the 'added' exceptions.
getActiveServiceId_WeeklyFirst(date, calendar, calendarDates) ==
  LET Resolve(weekly, exceptionDate) ==
        IF weekly # NULL THEN weekly
        ELSE IF exceptionDate # 0 THEN calendarDates[exceptionDate].service_id
        ELSE NULL
      WithInfo(info) ==
        Resolve(ScanCalendar(calendar, calendarDates, info.dayOfWeek, info.dateStr, 1),
                FindAdded(calendarDates, info.dateStr, 1))
  IN  WithInfo(getPacificTimeInfo(date))

getActiveServiceId(date, calendar, calendarDates) ==
  LET Resolve(info, exceptionDate) ==
        IF exceptionDate # 0
          THEN calendarDates[exceptionDate].service_id
          ELSE ScanCalendar(calendar, calendarDates, info.dayOfWeek, info.dateStr, 1)
      WithInfo(info) == Resolve(info, FindAdded(calendarDates, info.dateStr, 1))
  IN  WithInfo(getPacificTimeInfo(date))

(***************************************************************************)
(* Trip time materializer: the part of the trip loop of getScheduledTrains *)
(* that turns the origin departure_time and the destination arrival_time   *)
(* into instants.  An ISO 8601 date-time string is the record of its       *)
(* fields.                                                                 *)
(***************************************************************************)

\* depDate = new Date(baseDate); depDate.setDate(depDate.getDate() + dayOffset),
\* read back with getFullYear, getMonth + 1, getDate.
SetDatePlus(year, month, day, dayOffset) ==
  CivilFromDays(DaysFromCivil(year, month, 1) + (day + dayOffset) - 1)

\* testDate = new Date(`${year}-${month}-${day}T12:00:00Z`), formatted in
\* America/Los_Angeles with timeZoneName 'short': does it include 'PDT'?
TzOffsetOf(year, month, day) ==
  IF IsPDT(UTC(year, month, day, 12, 0, 0)) THEN "-07:00" ELSE "-08:00"

\* new Date(str) of an ISO 8601 string with a numeric offset.
ParseDateTime(str) ==
  UTC(str.year, str.month, str.day, str.hour, str.min, str.sec)
    - (IF str.tz = "-07:00" THEN -7 * 3600 ELSE -8 * 3600)

\* DateTimeStr with the hour wrapped but the date left on the service date.
DateTimeStr_NoDayOffset(year, month, day, time, tzOffset) ==
  [year |-> year, month |-> month, day |-> day,
   hour |-> time[1] % 24, min |-> time[2], sec |-> time[3], tz |-> tzOffset]

\* `${Y}-${M}-${D}T${hourNormalized}:${min}:${sec}${tzOffset}` for one stop time
\* <<HH, MM, SS>> on the service date <<year, month, day>>.
DateTimeStr(year, month, day, time, tzOffset) ==
  LET Str(d, hourNormalized) ==
        [year |-> d[1], month |-> d[2], day |-> d[3],
         hour |-> hourNormalized, min |-> time[2], sec |-> time[3], tz |-> tzOffset]
      WithOffset(dayOffset) == Str(SetDatePlus(year, month, day, dayOffset), time[1] % 24)
  IN  WithOffset(time[1] \div 24)

\* The scheduled instants of one trip for the query instant `date`.
TripTimes(date, departure_time, arrival_time) ==
  LET Times(depDateTimeStr, arrDateTimeStr) ==
        [depDateTimeStr |-> depDateTimeStr,
         arrDateTimeStr |-> arrDateTimeStr,
         departureDate  |-> ParseDateTime(depDateTimeStr),
         arrivalDate    |-> ParseDateTime(arrDateTimeStr)]
      WithOffset(parts, tzOffset) ==
        Times(DateTimeStr(parts[1], parts[2], parts[3], departure_time, tzOffset),
              DateTimeStr(parts[1], parts[2], parts[3], arrival_time, tzOffset))
      WithParts(parts) == WithOffset(parts, TzOffsetOf(parts[1], parts[2], parts[3]))
  IN  WithParts(PacificDateParts(date))

(***************************************************************************)
(* Trip delay from the realtime feed (src/lib/gtfs-realtime.ts).  An       *)
(* optional field (arrival?, departure?) is the empty sequence when it is  *)
(* undefined and a one-element sequence when it is set; an undefined       *)
(* scheduleRelationship is NULL.  The null result of getTripDelay is       *)
(* NoDelayInfo.                                                            *)
(***************************************************************************)

Abs(n) == IF n < 0 THEN -n ELSE n

\* Math.round(seconds / 60): halves go towards +Infinity.
RoundMinutes(seconds) == (seconds + 30) \div 60

NoDelayInfo == [delay |-> 0, status |-> NULL]

\* stop.departure?.delay || stop.arrival?.delay || 0
StopDelay(stop) ==
  IF Len(stop.departure) > 0 /\ stop.departure[1].delay # 0 THEN stop.departure[1].delay
  ELSE IF Len(stop.arrival) > 0 /\ stop.arrival[1].delay # 0 THEN stop.arrival[1].delay
  ELSE 0

\* The loop that keeps the largest delay rather than the one of largest
\* absolute value.
RECURSIVE ScanStops_LargestSigned(_, _, _)
ScanStops_LargestSigned(stopTimeUpdates, i, maxDelaySeconds) ==
  IF i > Len(stopTimeUpdates)
    THEN [maxDelaySeconds |-> maxDelaySeconds, isCancelled |-> FALSE]
  ELSE IF stopTimeUpdates[i].scheduleRelationship \in {"SKIPPED", "CANCELED"}
    THEN [maxDelaySeconds |-> maxDelaySeconds, isCancelled |-> TRUE]
  ELSE
    LET Next(stopDelay) ==
          ScanStops_LargestSigned(stopTimeUpdates, i + 1,
                    IF stopDelay > maxDelaySeconds THEN stopDelay ELSE maxDelaySeconds)
    IN  Next(StopDelay(stopTimeUpdates[i]))

\* The loop that ends at an entry without delays as it does at a skipped one.
RECURSIVE ScanStops_StopAtBlank(_, _, _)
ScanStops_StopAtBlank(stopTimeUpdates, i, maxDelaySeconds) ==
  IF i > Len(stopTimeUpdates)
    THEN [maxDelaySeconds |-> maxDelaySeconds, isCancelled |-> FALSE]
  ELSE IF stopTimeUpdates[i].scheduleRelationship \in {"SKIPPED", "CANCELED"}
    THEN [maxDelaySeconds |-> maxDelaySeconds, isCancelled |-> TRUE]
  ELSE IF StopDelay(stopTimeUpdates[i]) = 0
    THEN [maxDelaySeconds |-> maxDelaySeconds, isCancelled |-> FALSE]
  ELSE
    LET Next(stopDelay) ==
          ScanStops_StopAtBlank(stopTimeUpdates, i + 1,
                    IF Abs(stopDelay) > Abs(maxDelaySeconds) THEN stopDelay ELSE maxDelaySeconds)
    IN  Next(StopDelay(stopTimeUpdates[i]))

\* The "for (const stop of update.stopTimeUpdates)" loop from entry i on, with
\* the running maxDelaySeconds; the loop breaks at a skipped or canceled entry.
RECURSIVE ScanStops(_, _, _)
ScanStops(stopTimeUpdates, i, maxDelaySeconds) ==
  IF i > Len(stopTimeUpdates)
    THEN [maxDelaySeconds |-> maxDelaySeconds, isCancelled |-> FALSE]
  ELSE IF stopTimeUpdates[i].scheduleRelationship \in {"SKIPPED", "CANCELED"}
    THEN [maxDelaySeconds |-> maxDelaySeconds, isCancelled |-> TRUE]
  ELSE
    LET Next(stopDelay) ==
          ScanStops(stopTimeUpdates, i + 1,
                    IF Abs(stopDelay) > Abs(maxDelaySeconds) THEN stopDelay ELSE maxDelaySeconds)
    IN  Next(StopDelay(stopTimeUpdates[i]))

\* calculateTripDelay that gives a cancelled trip no delay.
calculateTripDelay_CancelledNoDelay(update) ==
  IF Len(update.stopTimeUpdates) = 0 THEN NoDelayInfo
  ELSE
    LET Result(isCancelled, delayMinutes) ==
          [delay  |-> IF isCancelled THEN 0 ELSE delayMinutes,
           status |-> IF isCancelled THEN "cancelled"
                      ELSE IF Abs(delayMinutes) >= 1 THEN "delayed"
                      ELSE "on-time"]
        Of(scan) == Result(scan.isCancelled, RoundMinutes(scan.maxDelaySeconds))
    IN  Of(ScanStops(update.stopTimeUpdates, 1, 0))

\* calculateTripDelay with the test for a delay put before the one for a
\* cancellation.
calculateTripDelay_DelayFirst(update) ==
  IF Len(update.stopTimeUpdates) = 0 THEN NoDelayInfo
  ELSE
    LET Result(isCancelled, delayMinutes) ==
          [delay  |-> delayMinutes,
           status |-> IF Abs(delayMinutes) >= 1 THEN "delayed"
                      ELSE IF isCancelled THEN "cancelled"
                      ELSE "on-time"]
        Of(scan) == Result(scan.isCancelled, RoundMinutes(scan.maxDelaySeconds))
    IN  Of(ScanStops(update.stopTimeUpdates, 1, 0))

calculateTripDelay(update) ==
  IF Len(update.stopTimeUpdates) = 0 THEN NoDelayInfo
  ELSE
    LET Result(isCancelled, delayMinutes) ==
          [delay  |-> delayMinutes,
           status |-> IF isCancelled THEN "cancelled"
                      ELSE IF Abs(delayMinutes) >= 1 THEN "delayed"
                      ELSE "on-time"]
        Of(scan) == Result(scan.isCancelled, RoundMinutes(scan.maxDelaySeconds))
    IN  Of(ScanStops(update.stopTimeUpdates, 1, 0))

\* update.tripId.endsWith(`-${trainNumber}`) on the trip ids of the model.
EndsWithDash(tripId, trainNumber) == <<tripId, trainNumber>> \in {<<"RT-101", "101">>}

\* The index of the first update from i on with tripId === tripId, 0 if none.
RECURSIVE FindExact(_, _, _)
FindExact(updates, tripId, i) ==
  IF i > Len(updates) THEN 0
  ELSE IF updates[i].tripId = tripId THEN i
  ELSE FindExact(updates, tripId, i + 1)

\* The index of the first update from i on whose tripId is the train number or
\* ends with '-' and the train number, 0 if none.
RECURSIVE FindByTrainNumber(_, _, _)
FindByTrainNumber(updates, trainNumber, i) ==
  IF i > Len(updates) THEN 0
  ELSE IF updates[i].tripId = trainNumber \/ EndsWithDash(updates[i].tripId, trainNumber) THEN i
  ELSE FindByTrainNumber(updates, trainNumber, i + 1)

\* trainNumber is NULL when the optional argument is not passed.
getTripDelay(updates, tripId, trainNumber) ==
  LET Of(found) == IF found # 0 THEN calculateTripDelay(updates[found]) ELSE NoDelayInfo
      Fallback(exact) ==
        IF exact # 0 THEN exact
        ELSE IF trainNumber # NULL THEN FindByTrainNumber(updates, trainNumber, 1)
        ELSE 0
  IN  Of(Fallback(FindExact(updates, tripId, 1)))

(***************************************************************************)
(* Delay overlay: the part of the trip loop of getScheduledTrains that     *)
(* turns scheduled into actual instants.  caltrainAlerts is a function     *)
(* from train numbers to records with a delayMinutes field.                *)
(***************************************************************************)

\* The overlay with the delay put on the departure only.
Overlay_DepartureOnly(trip, departureDate, arrivalDate, tripUpdates, caltrainAlerts) ==
  LET Shift(delay) ==
        [actualDepartureTimeMs |-> departureDate + delay * 60,
         actualArrivalTimeMs   |-> arrivalDate]
      Fallback(feedDelay) ==
        Shift(IF /\ feedDelay = 0
                 /\ Cardinality(DOMAIN caltrainAlerts) > 0
                 /\ trip.trip_short_name \in DOMAIN caltrainAlerts
                THEN caltrainAlerts[trip.trip_short_name].delayMinutes
                ELSE feedDelay)
      Feed(delayInfo) ==
        Fallback(IF delayInfo # NoDelayInfo /\ delayInfo.delay # 0 THEN delayInfo.delay ELSE 0)
  IN  Feed(IF Len(tripUpdates) > 0
             THEN getTripDelay(tripUpdates, trip.trip_id, NULL)
             ELSE NoDelayInfo)

\* The overlay with the scraped alert looked up before the feed.
Overlay_AlertsFirst(trip, departureDate, arrivalDate, tripUpdates, caltrainAlerts) ==
  LET Shift(delay) ==
        [actualDepartureTimeMs |-> departureDate + delay * 60,
         actualArrivalTimeMs   |-> arrivalDate + delay * 60]
      Fallback(feedDelay) ==
        Shift(IF /\ Cardinality(DOMAIN caltrainAlerts) > 0
                 /\ trip.trip_short_name \in DOMAIN caltrainAlerts
                 /\ caltrainAlerts[trip.trip_short_name].delayMinutes # 0
                THEN caltrainAlerts[trip.trip_short_name].delayMinutes
                ELSE feedDelay)
      Feed(delayInfo) ==
        Fallback(IF delayInfo # NoDelayInfo /\ delayInfo.delay # 0 THEN delayInfo.delay ELSE 0)
  IN  Feed(IF Len(tripUpdates) > 0
             THEN getTripDelay(tripUpdates, trip.trip_id, NULL)
             ELSE NoDelayInfo)

Overlay(trip, departureDate, arrivalDate, tripUpdates, caltrainAlerts) ==
  LET \* "check Caltrain alerts as fallback"
      Fallback(actualDepartureTimeMs, actualArrivalTimeMs) ==
        IF /\ actualDepartureTimeMs = departureDate
           /\ Cardinality(DOMAIN caltrainAlerts) > 0
           /\ trip.trip_short_name \in DOMAIN caltrainAlerts
          THEN [actualDepartureTimeMs |->
                  departureDate + caltrainAlerts[trip.trip_short_name].delayMinutes * 60,
                actualArrivalTimeMs |->
                  arrivalDate + caltrainAlerts[trip.trip_short_name].delayMinutes * 60]
          ELSE [actualDepartureTimeMs |-> actualDepartureTimeMs,
                actualArrivalTimeMs   |-> actualArrivalTimeMs]
      \* "First, try GTFS-Realtime": delayMs is 0 when the feed gives no delay
      Shift(delayMs) == Fallback(departureDate + delayMs, arrivalDate + delayMs)
      Feed(delayInfo) ==
        Shift(IF delayInfo # NoDelayInfo /\ delayInfo.delay # 0 THEN delayInfo.delay * 60 ELSE 0)
  IN  Feed(IF Len(tripUpdates) > 0
             THEN getTripDelay(tripUpdates, trip.trip_id, NULL)
             ELSE NoDelayInfo)

(***************************************************************************)
(* Stations (lib/stations): the list is ordered north to south.            *)
(***************************************************************************)

stations ==
  << [id |-> "sf",        code |-> "SF", name |-> "San Francisco"],
     [id |-> "millbrae",  code |-> "MB", name |-> "Millbrae"],
     [id |-> "palo-alto", code |-> "PA", name |-> "Palo Alto"],
     [id |-> "diridon",   code |-> "SJ", name |-> "San Jose Diridon"] >>

\* stations.findIndex(s => s.id === id), 0-based, -1 when there is none.
StationIndex(id) ==
  IF \E i \in DOMAIN stations : stations[i].id = id
    THEN (CHOOSE i \in DOMAIN stations : stations[i].id = id) - 1
    ELSE -1

\* getStationById succeeds.
StationKnown(id) == StationIndex(id) >= 0

getStationById(id) == stations[StationIndex(id) + 1]

(***************************************************************************)
(* Stop identifier mapper.                                                 *)
(***************************************************************************)

codeMapping ==
  ("SF" :> "7001") @@ ("22ND" :> "7002") @@ ("BAYSHORE" :> "7003") @@ ("SSF" :> "7004") @@
  ("SB" :> "7005") @@ ("MB" :> "7006") @@ ("MILLBRAE" :> "7006") @@ ("BURLINGAME" :> "7008") @@
  ("SM" :> "7009") @@ ("HAYWARD" :> "7010") @@ ("HILLSDALE" :> "7011") @@ ("BELMONT" :> "7012") @@
  ("SC" :> "7013") @@ ("SAN CARLOS" :> "7013") @@ ("RW" :> "7014") @@ ("REDWOOD" :> "7014") @@
  ("MP" :> "7016") @@ ("MENLO" :> "7016") @@ ("PA" :> "7017") @@ ("PALO ALTO" :> "7017") @@
  ("STANFORD" :> "253774") @@ ("CALAVEUE" :> "7019") @@ ("CALIFORNIA" :> "7019") @@
  ("SAN ANTONIO" :> "7020") @@ ("MV" :> "7021") @@ ("MOUNTAIN VIEW" :> "7021") @@
  ("SUNNYVALE" :> "7022") @@ ("LAWRENCE" :> "7023") @@ ("SANTACLARA" :> "7024") @@
  ("SANTA CLARA" :> "7024") @@ ("COLLEGEPARK" :> "7025") @@ ("COLLEGE PARK" :> "7025") @@
  ("SJ" :> "7026") @@ ("DIRIDON" :> "7026") @@ ("TAMIEN" :> "7027") @@ ("CAPITOL" :> "7028") @@
  ("BH" :> "7029") @@ ("BLOSSOM HILL" :> "7029") @@ ("MH" :> "7030") @@ ("MORGAN HILL" :> "7030") @@
  ("SAN MARTIN" :> "7031") @@ ("GILROY" :> "7032")

\* The spellings with lower-case letters that the model hands to the mapper,
\* each with what toUpperCase makes of it.
UpperCased ==
  ("sf" :> "SF") @@ ("pa" :> "PA") @@ ("mb" :> "MB") @@ ("sj" :> "SJ") @@
  ("Stanford" :> "STANFORD") @@ ("stanford" :> "STANFORD") @@ ("Palo Alto" :> "PALO ALTO") @@
  ("san carlos" :> "SAN CARLOS") @@ ("22nd" :> "22ND") @@ ("gilroy" :> "GILROY") @@
  ("oakland" :> "OAKLAND") @@ ("xx" :> "XX") @@ ("stanford2" :> "STANFORD2")

\* stationCode.toUpperCase() on the codes of the model.
ToUpperCase(stationCode) ==
  IF stationCode \in DOMAIN UpperCased THEN UpperCased[stationCode] ELSE stationCode

\* The mapper with the table looked up under the code as given.
findGTFSStopId_AsGiven(stationCode, directionId) ==
  IF stationCode \notin DOMAIN codeMapping
    THEN stationCode \o (IF directionId = "0" THEN "1" ELSE "2")
  ELSE IF codeMapping[stationCode] = "253774"
    THEN (IF directionId = "0" THEN "2537740" ELSE "2537744")
  ELSE codeMapping[stationCode] \o (IF directionId = "0" THEN "1" ELSE "2")

findGTFSStopId(stationCode, directionId) ==
  LET key == ToUpperCase(stationCode)
  IN  IF key \notin DOMAIN codeMapping
        THEN stationCode \o (IF directionId = "0" THEN "1" ELSE "2")
      ELSE IF codeMapping[key] = "253774"
        THEN (IF directionId = "0" THEN "2537740" ELSE "2537744")
      ELSE codeMapping[key] \o (IF directionId = "0" THEN "1" ELSE "2")

(***************************************************************************)
(* Train classifier and selector: the rest of getScheduledTrains.          *)
(***************************************************************************)

CACHE_DURATION_HOURS == 24

\* The cache check with a cache of exactly CACHE_DURATION_HOURS still valid.
CacheIsValid_Inclusive(cache, now) ==
  /\ Len(cache.lastFetch) > 0
  /\ now - cache.lastFetch[1] <= CACHE_DURATION_HOURS * 3600

\* fetchGTFSData returns true from the cache: lastFetch is set and less than
\* CACHE_DURATION_HOURS old at the instant now.  lastFetch is the empty
\* sequence for null and <<instant>> for a Date.
CacheIsValid(cache, now) ==
  /\ Len(cache.lastFetch) > 0
  /\ now - cache.lastFetch[1] < CACHE_DURATION_HOURS * 3600

\* Date.toISOString: the UTC fields of an instant.
ToISOString(t) ==
  LET Str(d, r) ==
        [year |-> d[1], month |-> d[2], day |-> d[3],
         hour |-> r \div 3600, min |-> (r % 3600) \div 60, sec |-> r % 60]
  IN  Str(CivilFromDays(t \div 86400), t % 86400)

\* new Date(isoString).getTime()
ParseISOString(str) == UTC(str.year, str.month, str.day, str.hour, str.min, str.sec)

\* The index of the first stop_times row of the trip at the stop, 0 if none.
RECURSIVE FindStopTime(_, _, _, _)
FindStopTime(stopTimes, trip_id, stop_id, i) ==
  IF i > Len(stopTimes) THEN 0
  ELSE IF stopTimes[i].trip_id = trip_id /\ stopTimes[i].stop_id = stop_id THEN i
  ELSE FindStopTime(stopTimes, trip_id, stop_id, i + 1)

\* gtfsCache.stopTimes.filter(st => st.trip_id === trip_id).length
TripStopCount(stopTimes, trip_id) ==
  Cardinality({i \in DOMAIN stopTimes : stopTimes[i].trip_id = trip_id})

\* The classification with both thresholds taken as exclusive.
TrainType_Exclusive(tripStopCount) ==
  IF tripStopCount > 20 THEN "Local"
  ELSE IF tripStopCount > 13 THEN "Limited"
  ELSE "Express"

TrainType(tripStopCount) ==
  IF tripStopCount >= 20 THEN "Local"
  ELSE IF tripStopCount >= 13 THEN "Limited"
  ELSE "Express"

\* The inclusion test without the exception for delayed trains en route.
Included_NeverDeparted(departureDate, actualDepartureTimeMs, actualArrivalTimeMs, currentTimeMs) ==
  /\ ~(actualArrivalTimeMs < currentTimeMs)
  /\ ~(actualDepartureTimeMs < currentTimeMs)

\* The inclusion test: neither of the two "continue" statements is taken.
Included(departureDate, actualDepartureTimeMs, actualArrivalTimeMs, currentTimeMs) ==
  /\ ~(actualArrivalTimeMs < currentTimeMs)
  /\ ~(actualDepartureTimeMs < currentTimeMs
       /\ ~(actualDepartureTimeMs # departureDate))

\* A clock string with fewer than three parts: parts[1] or parts[2] is undefined
\* and padStart raises a TypeError.  The empty string, which parseCSV gives
\* for a missing value, is <<>>.
Malformed(time) == Len(time) < 3

\* The trip loop raises an exception: some trip of the direction has both rows
\* and a malformed origin departure_time or destination arrival_time.
TripLoopThrows(cache, activeTrips, directionId, originStopId, destStopId) ==
  \E i \in DOMAIN activeTrips :
    LET Bad(originStop, destStop) ==
          /\ originStop # 0 /\ destStop # 0
          /\ \/ Malformed(cache.stopTimes[originStop].departure_time)
             \/ Malformed(cache.stopTimes[destStop].arrival_time)
    IN  /\ activeTrips[i].direction_id = directionId
        /\ Bad(FindStopTime(cache.stopTimes, activeTrips[i].trip_id, originStopId, 1),
               FindStopTime(cache.stopTimes, activeTrips[i].trip_id, destStopId, 1))

\* The label read off the trip's headsign.
DirectionLabel_FromHeadsign(trip, directionId) ==
  IF trip.trip_headsign = "San Francisco" THEN "Northbound" ELSE "Southbound"

\* direction: isNorthbound ? 'Northbound' : 'Southbound', directionId being
\* '0' exactly when isNorthbound.
DirectionLabel(trip, directionId) ==
  IF directionId = "0" THEN "Northbound" ELSE "Southbound"

\* The "for (const trip of activeTrips)" loop from trip i on: the trains pushed.
RECURSIVE ProcessTrips(_, _, _, _, _, _, _, _, _)
ProcessTrips(cache, activeTrips, i, directionId, originStopId, destStopId, date, tripUpdates, caltrainAlerts) ==
  IF i > Len(activeTrips) THEN <<>>
  ELSE
    LET \* trains.push({...})
        Push(trip, times) ==
          <<[trainNumber   |-> IF trip.trip_short_name # "" THEN trip.trip_short_name
                               ELSE trip.trip_id,
             tripId        |-> trip.trip_id,
             direction     |-> DirectionLabel(trip, directionId),
             departureTime |-> ToISOString(times.departureDate),
             arrivalTime   |-> ToISOString(times.arrivalDate),
             duration      |-> RoundMinutes(times.arrivalDate - times.departureDate),
             type          |-> TrainType(TripStopCount(cache.stopTimes, trip.trip_id))]>>
        Test(trip, times, actual) ==
          IF Included(times.departureDate, actual.actualDepartureTimeMs,
                      actual.actualArrivalTimeMs, date)
            THEN Push(trip, times) ELSE <<>>
        WithTimes(trip, times) ==
          Test(trip, times, Overlay(trip, times.departureDate, times.arrivalDate,
                                    tripUpdates, caltrainAlerts))
        WithStops(trip, originStop, destStop) ==
          IF trip.direction_id # directionId THEN <<>>
          ELSE IF originStop = 0 \/ destStop = 0 THEN <<>>
          ELSE WithTimes(trip, TripTimes(date, cache.stopTimes[originStop].departure_time,
                                         cache.stopTimes[destStop].arrival_time))
        Body(trip) ==
          WithStops(trip, FindStopTime(cache.stopTimes, trip.trip_id, originStopId, 1),
                    FindStopTime(cache.stopTimes, trip.trip_id, destStopId, 1))
    IN  Body(activeTrips[i])
          \o ProcessTrips(cache, activeTrips, i + 1, directionId, originStopId,
                          destStopId, date, tripUpdates, caltrainAlerts)

\* Array.prototype.sort with the comparator on departureTime is stable: train
\* goes behind every element of the sorted sequence that does not come after it.
InsertByDeparture(sorted, train) ==
  LET Place(key) ==
        SelectSeq(sorted, LAMBDA x : ParseISOString(x.departureTime) <= key)
          \o <<train>>
          \o SelectSeq(sorted, LAMBDA x : ParseISOString(x.departureTime) > key)
  IN  Place(ParseISOString(train.departureTime))

RECURSIVE SortByDeparture(_)
SortByDeparture(trains_) ==
  IF Len(trains_) = 0 THEN <<>>
  ELSE InsertByDeparture(SortByDeparture(SubSeq(trains_, 1, Len(trains_) - 1)),
                         trains_[Len(trains_)])

\* slice(0, 5)
ResultLimit == 5

\* The first five trains in dataset order, sorted afterwards.
SortAndSlice_SliceFirst(trains_) ==
  LET Slice(sorted) ==
        SubSeq(sorted, 1, IF Len(sorted) < ResultLimit THEN Len(sorted) ELSE ResultLimit)
  IN  SortByDeparture(Slice(trains_))

\* trains.sort(...).slice(0, 5)
SortAndSlice(trains_) ==
  LET Slice(sorted) ==
        SubSeq(sorted, 1, IF Len(sorted) < ResultLimit THEN Len(sorted) ELSE ResultLimit)
  IN  Slice(SortByDeparture(trains_))

\* What the caller would see of an exception that nothing catches.
Thrown == <<[error |-> "TypeError"]>>

\* getScheduledTrains without the two catch blocks.
getScheduledTrains_Uncaught(cache, originStationId, destinationStationId, date, tripUpdates, caltrainAlerts) ==
  LET Return(pushed) == [trains |-> pushed, result |-> SortAndSlice(pushed)]
      \* try { for ... } catch (error) { return []; }
      TryLoop(activeTrips, directionId, originStopId, destStopId) ==
        IF TripLoopThrows(cache, activeTrips, directionId, originStopId, destStopId)
          THEN [trains |-> <<>>, result |-> Thrown]
          ELSE Return(ProcessTrips(cache, activeTrips, 1, directionId, originStopId, destStopId,
                                   date, tripUpdates, caltrainAlerts))
      Loop(activeTrips, directionId) ==
        TryLoop(activeTrips, directionId,
                findGTFSStopId(getStationById(originStationId).code, directionId),
                findGTFSStopId(getStationById(destinationStationId).code, directionId))
      WithService(serviceId) ==
        IF serviceId = NULL THEN [trains |-> <<>>, result |-> <<>>]
        ELSE Loop(SelectSeq(cache.trips, LAMBDA trip : trip.service_id = serviceId),
                  IF StationIndex(originStationId) > StationIndex(destinationStationId)
                    THEN "0" ELSE "1")
  IN  IF Len(cache.trips) = 0 THEN [trains |-> <<>>, result |-> <<>>]
      ELSE IF ~StationKnown(originStationId) \/ ~StationKnown(destinationStationId)
        THEN [trains |-> <<>>, result |-> <<>>]
      ELSE WithService(getActiveServiceId(date, cache.calendar, cache.calendarDates))

\* getScheduledTrains once fetchGTFSData has returned true: the trains array
\* before the sort and the value returned.
getScheduledTrains(cache, originStationId, destinationStationId, date, tripUpdates, caltrainAlerts) ==
  LET Return(pushed) == [trains |-> pushed, result |-> SortAndSlice(pushed)]
      \* try { for ... } catch (error) { return []; }
      TryLoop(activeTrips, directionId, originStopId, destStopId) ==
        IF TripLoopThrows(cache, activeTrips, directionId, originStopId, destStopId)
          THEN [trains |-> <<>>, result |-> <<>>]
          ELSE Return(ProcessTrips(cache, activeTrips, 1, directionId, originStopId, destStopId,
                                   date, tripUpdates, caltrainAlerts))
      Loop(activeTrips, directionId) ==
        TryLoop(activeTrips, directionId,
                findGTFSStopId(getStationById(originStationId).code, directionId),
                findGTFSStopId(getStationById(destinationStationId).code, directionId))
      WithService(serviceId) ==
        IF serviceId = NULL THEN [trains |-> <<>>, result |-> <<>>]
        ELSE Loop(SelectSeq(cache.trips, LAMBDA trip : trip.service_id = serviceId),
                  IF StationIndex(originStationId) > StationIndex(destinationStationId)
                    THEN "0" ELSE "1")
  IN  IF Len(cache.trips) = 0 THEN [trains |-> <<>>, result |-> <<>>]
      ELSE IF ~StationKnown(originStationId) \/ ~StationKnown(destinationStationId)
        THEN [trains |-> <<>>, result |-> <<>>]
      ELSE WithService(getActiveServiceId(date, cache.calendar, cache.calendarDates))

(***************************************************************************)
(* The dataset snapshot.                                                   *)
(***************************************************************************)

EmptyCache ==
  [stopTimes |-> <<>>, trips |-> <<>>, calendar |-> <<>>, calendarDates |-> <<>>,
   lastFetch |-> <<>>]

(***************************************************************************)
(* Calendar resolver under bounded inputs.                                 *)
(***************************************************************************)

\* Largest number of calendar rows plus exception rows of a dataset.
MaxRows == 3

Weekdays ==
  [sunday |-> "0", monday |-> "1", tuesday |-> "1", wednesday |-> "1",
   thursday |-> "1", friday |-> "1", saturday |-> "0"]

Weekend ==
  [sunday |-> "1", monday |-> "0", tuesday |-> "0", wednesday |-> "0",
   thursday |-> "0", friday |-> "0", saturday |-> "1"]

CalendarRange == {<<20250301, 20250310>>, <<20250310, 20250315>>, <<20250311, 20250331>>}

CalendarRows ==
  { [service_id |-> s, start_date |-> r[1], end_date |-> r[2]] @@ w :
      s \in {"WKDY", "WKND"}, w \in {Weekdays, Weekend}, r \in CalendarRange }

ExceptionRows ==
  [service_id : {"WKDY", "HOL"}, date : {20250310, 20250315}, exception_type : {"1", "2"}]

\* Query instants with the Pacific civil date and weekday read off a calendar:
\* Mon 10 Mar 2025 20:00 PDT, Tue 11 Mar 00:30 PDT, Sat 15 Mar 00:30 PDT and
\* Sat 15 Mar 23:30 PDT (the UTC date is one day later in the first and last).
Queries ==
  { [t |-> UTC(2025, 3, 11, 3, 0, 0),  ymd |-> 20250310, dow |-> 1],
    [t |-> UTC(2025, 3, 11, 7, 30, 0), ymd |-> 20250311, dow |-> 2],
    [t |-> UTC(2025, 3, 15, 7, 30, 0), ymd |-> 20250315, dow |-> 6],
    [t |-> UTC(2025, 3, 16, 6, 30, 0), ymd |-> 20250315, dow |-> 6] }

InitCal ==
  \E nc \in 0..MaxRows : \E ne \in 0..(MaxRows - nc) :
    \E calendar \in [1..nc -> CalendarRows], calendarDates \in [1..ne -> ExceptionRows],
       q \in Queries :
      /\ gtfsCache = [EmptyCache EXCEPT !.calendar = calendar,
                                        !.calendarDates = calendarDates]
      /\ args = [date |-> q.t]
      /\ trains = <<>>
      /\ ret = NULL
      /\ pc = "call"
      /\ StoreIdle

ResolveActiveService ==
  /\ pc = "call"
  /\ ret' = getActiveServiceId(args.date, gtfsCache.calendar, gtfsCache.calendarDates)
  /\ pc' = "done"
  /\ UNCHANGED <<gtfsCache, args, trains>>
  /\ UNCHANGED storeVars

NextCal == ResolveActiveService

SpecCal == InitCal /\ [][NextCal]_vars

\* The Pacific date and weekday of the query instant, from the table.
QueryDay == CHOOSE q \in Queries : q.t = args.date

AddedOn(cd, ymd) == cd.date = ymd /\ cd.exception_type = "1"

RemovedOn(cd, s, ymd) == cd.date = ymd /\ cd.service_id = s /\ cd.exception_type = "2"

\* Row cal covers the day and has that weekday's flag set.
Covers(cal, q) ==
  /\ cal.start_date <= q.ymd
  /\ q.ymd <= cal.end_date
  /\ cal[dayNames[q.dow + 1]] = "1"

HasAdded == \E i \in DOMAIN gtfsCache.calendarDates : AddedOn(gtfsCache.calendarDates[i], QueryDay.ymd)

FirstAdded ==
  LET cds == gtfsCache.calendarDates
  IN  cds[CHOOSE i \in DOMAIN cds :
            /\ AddedOn(cds[i], QueryDay.ymd)
            /\ \A j \in 1..(i - 1) : ~AddedOn(cds[j], QueryDay.ymd)]

\* C1: an 'added' exception on the Pacific date of the query wins; the first one
\* in dataset order gives the returned service_id, whatever the calendar rows
\* and the 'removed' exceptions are.
C1_AddedExceptionWins ==
  (pc = "done" /\ HasAdded) => ret = FirstAdded.service_id

\* The weekly pattern names another service for the day, a 'removed' exception
\* is there too, and the added one is returned.
C1_Witness ==
  /\ pc = "done"
  /\ HasAdded
  /\ ret = FirstAdded.service_id
  /\ \E i \in DOMAIN gtfsCache.calendar :
        /\ Covers(gtfsCache.calendar[i], QueryDay)
        /\ gtfsCache.calendar[i].service_id # ret
  /\ \E i \in DOMAIN gtfsCache.calendarDates :
        gtfsCache.calendarDates[i].exception_type = "2"
        /\ gtfsCache.calendarDates[i].date = QueryDay.ymd

NoRemovedOnDay ==
  \A i \in DOMAIN gtfsCache.calendarDates :
    ~(gtfsCache.calendarDates[i].date = QueryDay.ymd
      /\ gtfsCache.calendarDates[i].exception_type = "2")

\* Row i is what the weekly scan accepts for the day.
WeeklyMatch(i) ==
  LET cal == gtfsCache.calendar[i]
  IN  /\ Covers(cal, QueryDay)
      /\ \A k \in DOMAIN gtfsCache.calendarDates :
            ~RemovedOn(gtfsCache.calendarDates[k], cal.service_id, QueryDay.ymd)

\* C2 as stated: every covering calendar row with its weekday flag set and no
\* 'removed' exception on the day has its service_id returned.
C2_Original ==
  pc = "done" =>
    \A i \in DOMAIN gtfsCache.calendar :
      (Covers(gtfsCache.calendar[i], QueryDay) /\ NoRemovedOnDay)
        => ret = gtfsCache.calendar[i].service_id

\* C2 amended: such a row's service_id is returned unless an 'added' exception
\* exists for the day or an earlier calendar row also matches the day.
C2_CoveringRowReturned ==
  pc = "done" =>
    \A i \in DOMAIN gtfsCache.calendar :
      ( /\ Covers(gtfsCache.calendar[i], QueryDay)
        /\ NoRemovedOnDay
        /\ ~HasAdded
        /\ \A j \in 1..(i - 1) : ~WeeklyMatch(j) )
        => ret = gtfsCache.calendar[i].service_id

\* A row whose range ends on the query day (inclusive end) is the one returned,
\* with a non-matching row before it.
C2_Witness ==
  /\ pc = "done"
  /\ ~HasAdded
  /\ NoRemovedOnDay
  /\ Len(gtfsCache.calendar) >= 2
  /\ ~WeeklyMatch(1)
  /\ Covers(gtfsCache.calendar[2], QueryDay)
  /\ gtfsCache.calendar[2].end_date = QueryDay.ymd
  /\ gtfsCache.calendar[1].service_id # gtfsCache.calendar[2].service_id
  /\ ret = gtfsCache.calendar[2].service_id

HasRemoved(s) ==
  \E i \in DOMAIN gtfsCache.calendarDates :
    RemovedOn(gtfsCache.calendarDates[i], s, QueryDay.ymd)

\* C3 as stated: a service with a 'removed' exception on the day is never the
\* one returned.
C3_Original ==
  pc = "done" => \A s \in {"WKDY", "WKND", "HOL"} : HasRemoved(s) => ret # s

\* C3 amended: a service with a 'removed' exception on the day is returned only
\* when the first 'added' exception for the day names it.
C3_RemovedExcluded ==
  pc = "done" =>
    \A s \in {"WKDY", "WKND", "HOL"} :
      (HasRemoved(s) /\ ret = s) => (HasAdded /\ FirstAdded.service_id = s)

\* The removed service's row covers the day with the flag set, and another
\* service (or none) is returned.
C3_Witness ==
  /\ pc = "done"
  /\ \E i \in DOMAIN gtfsCache.calendar :
        /\ Covers(gtfsCache.calendar[i], QueryDay)
        /\ HasRemoved(gtfsCache.calendar[i].service_id)
        /\ ret # gtfsCache.calendar[i].service_id
        /\ ~HasAdded

\* C22: when no 'added' exception exists for the day, the service_id
\* returned is the one of the first calendar row in dataset order that covers
\* the day with the weekday flag set and whose service has no 'removed'
\* exception for the day, whatever rows follow it; it is null when there is
\* no such row.
C22_FirstMatchOrNull ==
  (pc = "done" /\ ~HasAdded) =>
    /\ \A i \in DOMAIN gtfsCache.calendar :
         (WeeklyMatch(i) /\ \A j \in 1..(i - 1) : ~WeeklyMatch(j))
           => ret = gtfsCache.calendar[i].service_id
    /\ (\A i \in DOMAIN gtfsCache.calendar : ~WeeklyMatch(i)) => ret = NULL

\* Two rows of different services match the day, behind a row that does not
\* cover it, and the first of the two is returned.
C22_Witness ==
  /\ pc = "done"
  /\ ~HasAdded
  /\ Len(gtfsCache.calendar) = 3
  /\ ~WeeklyMatch(1)
  /\ WeeklyMatch(2) /\ WeeklyMatch(3)
  /\ gtfsCache.calendar[2].service_id # gtfsCache.calendar[3].service_id
  /\ ret = gtfsCache.calendar[2].service_id

\* No row matches and null is returned, with a row that covers the day.
C22_NoMatch ==
  /\ pc = "done"
  /\ ~HasAdded
  /\ Len(gtfsCache.calendar) >= 1
  /\ \A i \in DOMAIN gtfsCache.calendar : ~WeeklyMatch(i)
  /\ \E i \in DOMAIN gtfsCache.calendar : Covers(gtfsCache.calendar[i], QueryDay)
  /\ ret = NULL

(***************************************************************************)
(* Trip time materializer under bounded inputs.                            *)
(***************************************************************************)

\* Largest hour field of a stop time (48 and more is two days on).
MaxHour == 49

ClockTimes == { <<h, ms[1], ms[2]>> : h \in 0..MaxHour, ms \in {<<0, 0>>, <<30, 59>>} }

ArrivalTimes == { <<h, 30, 59>> : h \in 0..MaxHour }

\* Query instants with the Pacific service date read off a calendar: the eve
\* and the day of both 2025 DST changes (9 March, 2 November), a year end, the
\* last of February in a leap and in a common year, and a midsummer day.
ServiceDays ==
  { [t |-> UTC(2025, 3, 8, 20, 0, 0),   sd |-> <<2025, 3, 8>>],
    [t |-> UTC(2025, 3, 9, 8, 30, 0),   sd |-> <<2025, 3, 9>>],
    [t |-> UTC(2025, 11, 1, 20, 0, 0),  sd |-> <<2025, 11, 1>>],
    [t |-> UTC(2025, 11, 2, 7, 30, 0),  sd |-> <<2025, 11, 2>>],
    [t |-> UTC(2026, 1, 1, 3, 0, 0),    sd |-> <<2025, 12, 31>>],
    [t |-> UTC(2024, 2, 28, 20, 0, 0),  sd |-> <<2024, 2, 28>>],
    [t |-> UTC(2025, 2, 28, 20, 0, 0),  sd |-> <<2025, 2, 28>>],
    [t |-> UTC(2025, 6, 15, 6, 59, 59), sd |-> <<2025, 6, 14>>] }

InitMat ==
  \E q \in ServiceDays, dep \in ClockTimes, arr \in ArrivalTimes :
    /\ gtfsCache = EmptyCache
    /\ args = [date |-> q.t, departure_time |-> dep, arrival_time |-> arr]
    /\ trains = <<>>
    /\ ret = NULL
    /\ pc = "call"
    /\ StoreIdle

MaterializeTrip ==
  /\ pc = "call"
  /\ ret' = TripTimes(args.date, args.departure_time, args.arrival_time)
  /\ pc' = "done"
  /\ UNCHANGED <<gtfsCache, args, trains>>
  /\ UNCHANGED storeVars

NextMat == MaterializeTrip

SpecMat == InitMat /\ [][NextMat]_vars

\* The Pacific service date of the query instant, from the table.
ServiceDate == (CHOOSE q \in ServiceDays : q.t = args.date).sd

IsLeapYear(y) == (y % 4 = 0 /\ y % 100 # 0) \/ y % 400 = 0

DaysInMonth(y, m) ==
  IF m = 2 THEN (IF IsLeapYear(y) THEN 29 ELSE 28)
  ELSE IF m \in {4, 6, 9, 11} THEN 30 ELSE 31

\* The day after <<y, m, d>>.
NextDay(ymd) ==
  IF ymd[3] < DaysInMonth(ymd[1], ymd[2]) THEN <<ymd[1], ymd[2], ymd[3] + 1>>
  ELSE IF ymd[2] < 12 THEN <<ymd[1], ymd[2] + 1, 1>>
  ELSE <<ymd[1] + 1, 1, 1>>

RECURSIVE DaysLater(_, _)
DaysLater(ymd, k) == IF k = 0 THEN ymd ELSE DaysLater(NextDay(ymd), k - 1)

\* The civil date and hour that time <<H, M, S>> on the service date stands for.
CivilDateOf(time) == DaysLater(ServiceDate, CHOOSE k \in 0..MaxHour : 24 * k <= time[1] /\ time[1] < 24 * (k + 1))

HourOf(time) == CHOOSE h \in 0..23 : \E k \in 0..MaxHour : time[1] = 24 * k + h

\* The date-time string str reads civil date and hour of `time`, and instant t
\* read back at the string's own offset is that same wall-clock reading.
Materialized(str, t, time) ==
  LET off   == IF str.tz = "-07:00" THEN -7 * 3600 ELSE -8 * 3600
      local == t + off
  IN  /\ <<str.year, str.month, str.day>> = CivilDateOf(time)
      /\ str.hour = HourOf(time)
      /\ str.min = time[2] /\ str.sec = time[3]
      /\ CivilFromDays(local \div 86400) = CivilDateOf(time)
      /\ local % 86400 = HourOf(time) * 3600 + time[2] * 60 + time[3]

\* C4: a stop time H:M:S on service date SD is materialized on the civil date
\* SD + floor(H / 24) days at hour H mod 24, for the origin departure and the
\* destination arrival each on its own.
C4_DayOffsetAndHour ==
  pc = "done" =>
    /\ Materialized(ret.depDateTimeStr, ret.departureDate, args.departure_time)
    /\ Materialized(ret.arrDateTimeStr, ret.arrivalDate, args.arrival_time)

\* 23:30:59 on 31 December 2025 to 25:30:59, which is 01:30:59 on 1 January
\* 2026: the departure stays on the service date, the arrival moves one day
\* and one year on.
C4_Witness ==
  /\ pc = "done"
  /\ ServiceDate = <<2025, 12, 31>>
  /\ args.departure_time = <<23, 30, 59>>
  /\ args.arrival_time = <<25, 30, 59>>
  /\ <<ret.depDateTimeStr.year, ret.depDateTimeStr.month, ret.depDateTimeStr.day>> = <<2025, 12, 31>>
  /\ <<ret.arrDateTimeStr.year, ret.arrDateTimeStr.month, ret.arrDateTimeStr.day>> = <<2026, 1, 1>>
  /\ ret.arrDateTimeStr.hour = 1
  /\ ret.arrivalDate - ret.departureDate = 2 * 3600

\* The offset of the per-date rule: daylight time on the dates from the 2nd
\* Sunday of March up to the day before the 1st Sunday of November.
OffsetOfDate(ymd) ==
  LET z == DaysFromCivil(ymd[1], ymd[2], ymd[3])
  IN  IF NthSunday(ymd[1], 3, 2) <= z /\ z < NthSunday(ymd[1], 11, 1)
        THEN "-07:00" ELSE "-08:00"

\* C5: each endpoint's instant is built with the offset of that endpoint's
\* own civil date (service date plus its day offset).
C5_OffsetOfOwnDate ==
  pc = "done" =>
    /\ ret.depDateTimeStr.tz = OffsetOfDate(CivilDateOf(args.departure_time))
    /\ ret.arrDateTimeStr.tz = OffsetOfDate(CivilDateOf(args.arrival_time))

(***************************************************************************)
(* Trip delay and overlay under bounded inputs.                            *)
(***************************************************************************)

\* Largest number of trip updates plus stop-time entries of a feed.
MaxFeed == 4

Delay(seconds) == <<[delay |-> seconds, time |-> 0]>>

\* Stop-time entries: no fields at all, 13 min late, departure delay 0 with an
\* arrival 90 s late, 5 min early on arrival only, 20 s late, skipped with a
\* 10 min delay, canceled without fields, 5 min late on departure only, 90 s
\* early.
StopKinds ==
  { [departure |-> <<>>,        arrival |-> <<>>,        scheduleRelationship |-> NULL],
    [departure |-> Delay(300),  arrival |-> <<>>,        scheduleRelationship |-> "SCHEDULED"],
    [departure |-> Delay(-90),  arrival |-> Delay(60),   scheduleRelationship |-> "SCHEDULED"],
    [departure |-> Delay(780),  arrival |-> Delay(720),  scheduleRelationship |-> "SCHEDULED"],
    [departure |-> Delay(0),    arrival |-> Delay(90),   scheduleRelationship |-> "SCHEDULED"],
    [departure |-> <<>>,        arrival |-> Delay(-300), scheduleRelationship |-> "SCHEDULED"],
    [departure |-> Delay(20),   arrival |-> <<>>,        scheduleRelationship |-> NULL],
    [departure |-> Delay(600),  arrival |-> <<>>,        scheduleRelationship |-> "SKIPPED"],
    [departure |-> <<>>,        arrival |-> <<>>,        scheduleRelationship |-> "CANCELED"] }

FeedTripIds == {"T101", "RT-101"}

\* A feed is written down as a sequence of items: an item with a tripId opens
\* a trip update, an item without one adds its stop-time entry to the update
\* opened last.
FeedItems ==
  { [tripId |-> id, stu |-> CHOOSE k \in StopKinds : k.scheduleRelationship = "CANCELED"] :
      id \in FeedTripIds }
  \cup { [tripId |-> NULL, stu |-> k] : k \in StopKinds }

RECURSIVE FeedOf(_)
FeedOf(items) ==
  IF Len(items) = 0 THEN <<>>
  ELSE
    LET n    == Len(items)
        rest == FeedOf(SubSeq(items, 1, n - 1))
    IN  IF items[n].tripId # NULL
          THEN Append(rest, [tripId |-> items[n].tripId, stopTimeUpdates |-> <<>>])
          ELSE [rest EXCEPT ![Len(rest)].stopTimeUpdates = Append(@, items[n].stu)]

\* Scraped delays: none, for train 101 (5 min late, 3 min early, on time), and
\* for another train only.
AlertMaps ==
  { <<>>,
    "101" :> [delayMinutes |-> 5],
    "101" :> [delayMinutes |-> -3],
    "101" :> [delayMinutes |-> 0],
    "202" :> [delayMinutes |-> 5] }

\* The trip under the overlay: 08:00 to 08:45 PDT on 10 March 2025.
OverlayTrip == [trip_id |-> "T101", trip_short_name |-> "101"]

InitDelay ==
  \E n \in 0..MaxFeed : \E items \in [1..n -> FeedItems] : \E alerts \in AlertMaps :
    /\ n > 0 => items[1].tripId # NULL
    /\ gtfsCache = EmptyCache
    /\ args = [tripUpdates    |-> FeedOf(items),
               caltrainAlerts |-> alerts,
               trip           |-> OverlayTrip,
               departureDate  |-> UTC(2025, 3, 10, 15, 0, 0),
               arrivalDate    |-> UTC(2025, 3, 10, 15, 45, 0)]
    /\ trains = <<>>
    /\ ret = NULL
    /\ pc = "call"
    /\ StoreIdle

\* getTripDelay(updates, tripId) and getTripDelay(updates, tripId, trainNumber).
LookUpTripDelay ==
  /\ pc = "call"
  /\ \E trainNumber \in {NULL, "101"} :
       /\ ret' = getTripDelay(args.tripUpdates, args.trip.trip_id, trainNumber)
       /\ pc' = IF trainNumber = NULL THEN "delay" ELSE "delayByNumber"
  /\ UNCHANGED <<gtfsCache, args, trains>>
  /\ UNCHANGED storeVars

OverlayDelays ==
  /\ pc = "call"
  /\ ret' = Overlay(args.trip, args.departureDate, args.arrivalDate,
                    args.tripUpdates, args.caltrainAlerts)
  /\ pc' = "overlay"
  /\ UNCHANGED <<gtfsCache, args, trains>>
  /\ UNCHANGED storeVars

NextDelay == LookUpTripDelay \/ OverlayDelays

SpecDelay == InitDelay /\ [][NextDelay]_vars

\* Some update of the feed has the trip's tripId; FeedUpdate is the first.
InFeed == \E i \in DOMAIN args.tripUpdates : args.tripUpdates[i].tripId = args.trip.trip_id

FeedUpdate ==
  args.tripUpdates[CHOOSE i \in DOMAIN args.tripUpdates :
                     /\ args.tripUpdates[i].tripId = args.trip.trip_id
                     /\ \A j \in 1..(i - 1) : args.tripUpdates[j].tripId # args.trip.trip_id]

\* The delay in minutes that the feed gives for the trip; 0 when it gives none.
FeedDelay ==
  IF InFeed /\ Len(FeedUpdate.stopTimeUpdates) > 0
    THEN calculateTripDelay(FeedUpdate).delay ELSE 0

HasScraped == args.trip.trip_short_name \in DOMAIN args.caltrainAlerts

ScrapedDelay == args.caltrainAlerts[args.trip.trip_short_name].delayMinutes

\* hasDelay of the inclusion test.
HasDelay(r) == r.actualDepartureTimeMs # args.departureDate

\* C6: a nonzero feed delay of d minutes for the trip's tripId moves departure
\* and arrival by the same d minutes, also for negative d, and hasDelay holds.
C6_FeedDelayApplied ==
  (pc = "overlay" /\ FeedDelay # 0) =>
    /\ ret.actualDepartureTimeMs = args.departureDate + FeedDelay * 60
    /\ ret.actualArrivalTimeMs = args.arrivalDate + FeedDelay * 60
    /\ ret.actualArrivalTimeMs - ret.actualDepartureTimeMs = args.arrivalDate - args.departureDate
    /\ HasDelay(ret)

\* An arrival-only delay of -300 s in the feed: both instants are 5 min early.
C6_Witness ==
  /\ pc = "overlay"
  /\ InFeed
  /\ Len(FeedUpdate.stopTimeUpdates) = 1
  /\ FeedUpdate.stopTimeUpdates[1].arrival = Delay(-300)
  /\ FeedDelay = -5
  /\ ret.actualDepartureTimeMs = args.departureDate - 300
  /\ ret.actualArrivalTimeMs = args.arrivalDate - 300

\* C7: the scraped delay is applied exactly when the feed gives no nonzero
\* delay and the scraped map has the trip's short name; a nonzero feed delay
\* overrides the scraped entry; with no nonzero delay from either source the
\* actual instants are the scheduled ones and hasDelay is false.
C7_ScrapedFallback ==
  pc = "overlay" =>
    /\ (FeedDelay = 0 /\ HasScraped) =>
          /\ ret.actualDepartureTimeMs = args.departureDate + ScrapedDelay * 60
          /\ ret.actualArrivalTimeMs = args.arrivalDate + ScrapedDelay * 60
    /\ (FeedDelay # 0) =>
          /\ ret.actualDepartureTimeMs = args.departureDate + FeedDelay * 60
          /\ ret.actualArrivalTimeMs = args.arrivalDate + FeedDelay * 60
    /\ (FeedDelay = 0 /\ ~HasScraped) =>
          /\ ret.actualDepartureTimeMs = args.departureDate
          /\ ret.actualArrivalTimeMs = args.arrivalDate
    /\ (FeedDelay = 0 /\ (HasScraped => ScrapedDelay = 0)) => ~HasDelay(ret)

\* The feed has the trip with a delay that rounds to 0 minutes, the scraped map
\* says 5 minutes, and 5 minutes are applied.
C7_Witness ==
  /\ pc = "overlay"
  /\ InFeed
  /\ Len(FeedUpdate.stopTimeUpdates) > 0
  /\ FeedDelay = 0
  /\ HasScraped
  /\ ScrapedDelay = 5
  /\ ret.actualDepartureTimeMs = args.departureDate + 300
  /\ HasDelay(ret)

IsCancelMark(stu) == stu.scheduleRelationship = "SKIPPED" \/ stu.scheduleRelationship = "CANCELED"

\* C8: when the trip's update (the first with its tripId) has a skipped or
\* canceled entry anywhere, the status is 'cancelled' whatever the delays are.
C8_CancelledStatus ==
  ( /\ pc = "delay"
    /\ InFeed
    /\ \E k \in DOMAIN FeedUpdate.stopTimeUpdates : IsCancelMark(FeedUpdate.stopTimeUpdates[k]) )
    => ret.status = "cancelled"

\* A 13 min delay on the first entry, the mark on a later one.
C8_Witness ==
  /\ pc = "delay"
  /\ InFeed
  /\ Len(FeedUpdate.stopTimeUpdates) >= 2
  /\ FeedUpdate.stopTimeUpdates[1].departure = Delay(780)
  /\ IsCancelMark(FeedUpdate.stopTimeUpdates[Len(FeedUpdate.stopTimeUpdates)])
  /\ ret.status = "cancelled"
  /\ ret.delay = 13

\* The delay in seconds that one stop-time entry stands for: its departure
\* delay, else its arrival delay, else 0, a delay of 0 being none.
EntryDelay(stu) ==
  IF stu.departure # <<>> /\ stu.departure[1].delay # 0 THEN stu.departure[1].delay
  ELSE IF stu.arrival # <<>> /\ stu.arrival[1].delay # 0 THEN stu.arrival[1].delay
  ELSE 0

\* Entry k of the trip's update is the first one of largest absolute delay.
LargestDelayAt(k) ==
  /\ \A j \in DOMAIN FeedUpdate.stopTimeUpdates :
       Abs(EntryDelay(FeedUpdate.stopTimeUpdates[j])) <= Abs(EntryDelay(FeedUpdate.stopTimeUpdates[k]))
  /\ \A j \in 1..(k - 1) :
       Abs(EntryDelay(FeedUpdate.stopTimeUpdates[j])) < Abs(EntryDelay(FeedUpdate.stopTimeUpdates[k]))

NoCancelMark ==
  \A k \in DOMAIN FeedUpdate.stopTimeUpdates : ~IsCancelMark(FeedUpdate.stopTimeUpdates[k])

\* C23: for an update with entries and no skipped or canceled one, the delay
\* returned is the entry delay of largest absolute value (the first such
\* entry), in minutes, at most half a minute off and with the sign kept; the
\* status is 'delayed' exactly when the minutes are 1 or more in absolute
\* value and 'on-time' otherwise.
C23_LargestDelayInMinutes ==
  (pc = "delay" /\ InFeed /\ Len(FeedUpdate.stopTimeUpdates) > 0 /\ NoCancelMark) =>
    /\ \E k \in DOMAIN FeedUpdate.stopTimeUpdates :
         /\ LargestDelayAt(k)
         /\ Abs(60 * ret.delay - EntryDelay(FeedUpdate.stopTimeUpdates[k])) <= 30
         /\ ret.delay * EntryDelay(FeedUpdate.stopTimeUpdates[k]) >= 0
    /\ ret.status = (IF Abs(ret.delay) >= 1 THEN "delayed" ELSE "on-time")

\* 20 s late, then 5 min early, then 5 min late: 5 min early is returned.
C23_Witness ==
  /\ pc = "delay"
  /\ InFeed
  /\ Len(FeedUpdate.stopTimeUpdates) = 3
  /\ FeedUpdate.stopTimeUpdates[1].departure = Delay(20)
  /\ FeedUpdate.stopTimeUpdates[2].arrival = Delay(-300)
  /\ FeedUpdate.stopTimeUpdates[3].departure = Delay(300)
  /\ ret = [delay |-> -5, status |-> "delayed"]

\* 20 s late only: 0 minutes and on time.
C23_OnTime ==
  /\ pc = "delay"
  /\ InFeed
  /\ Len(FeedUpdate.stopTimeUpdates) = 1
  /\ FeedUpdate.stopTimeUpdates[1].departure = Delay(20)
  /\ ret = [delay |-> 0, status |-> "on-time"]

\* 90 s early: 1 minute early, the half going up.
C23_HalfMinute ==
  /\ pc = "delay"
  /\ InFeed
  /\ Len(FeedUpdate.stopTimeUpdates) = 1
  /\ FeedUpdate.stopTimeUpdates[1].departure = Delay(-90)
  /\ ret = [delay |-> -1, status |-> "delayed"]

(***************************************************************************)
(* Selection under bounded inputs: one timetable, queries every quarter of *)
(* an hour of a Monday and a Saturday morning, feed and scraped delays.    *)
(***************************************************************************)

\* Number of quarter hours after 07:30 PDT up to which queries are made.
MaxTick == 16

Row(trip_id, stop_id, time, seq) ==
  [trip_id |-> trip_id, arrival_time |-> time, departure_time |-> time,
   stop_id |-> stop_id, stop_sequence |-> seq]

TripRow(trip_id, service_id, short, direction_id) ==
  [trip_id |-> trip_id, route_id |-> "CT", service_id |-> service_id,
   trip_short_name |-> short, trip_headsign |-> "", direction_id |-> direction_id]

\* Southbound trips are listed out of departure order; T107 and T117 leave at
\* the same time, T113 has no short name, T115 ends at Palo Alto, T125 leaves
\* after midnight of the service day.
Timetable ==
  [stopTimes |->
     << Row("T107", "70012", <<9, 0, 0>>, 1),   Row("T107", "70262", <<10, 0, 0>>, 2),
        Row("T101", "70012", <<8, 0, 0>>, 1),   Row("T101", "70262", <<8, 45, 0>>, 2),
        Row("T113", "70012", <<10, 30, 0>>, 1), Row("T113", "70262", <<11, 30, 0>>, 2),
        Row("T103", "70012", <<8, 20, 0>>, 1),  Row("T103", "70172", <<8, 55, 0>>, 2),
        Row("T103", "70262", <<9, 20, 0>>, 3),
        Row("T111", "70012", <<10, 0, 0>>, 1),  Row("T111", "70262", <<11, 0, 0>>, 2),
        Row("T105", "70012", <<8, 40, 0>>, 1),  Row("T105", "70262", <<9, 40, 0>>, 2),
        Row("T109", "70012", <<9, 30, 0>>, 1),  Row("T109", "70262", <<10, 30, 0>>, 2),
        Row("T117", "70012", <<9, 0, 0>>, 1),   Row("T117", "70262", <<9, 50, 0>>, 2),
        Row("T115", "70012", <<8, 50, 0>>, 1),  Row("T115", "70172", <<9, 30, 0>>, 2),
        Row("T125", "70012", <<24, 10, 0>>, 1), Row("T125", "70262", <<25, 30, 0>>, 2),
        Row("T102", "70261", <<8, 10, 0>>, 1),  Row("T102", "70011", <<9, 10, 0>>, 2),
        Row("T104", "70261", <<9, 10, 0>>, 1),  Row("T104", "70011", <<10, 10, 0>>, 2),
        Row("T201", "70012", <<8, 30, 0>>, 1),  Row("T201", "70262", <<9, 30, 0>>, 2) >>,
   trips |->
     << TripRow("T107", "WKDY", "107", "1"), TripRow("T101", "WKDY", "101", "1"),
        TripRow("T113", "WKDY", "", "1"),    TripRow("T103", "WKDY", "103", "1"),
        TripRow("T102", "WKDY", "102", "0"), TripRow("T111", "WKDY", "111", "1"),
        TripRow("T201", "WKND", "201", "1"), TripRow("T105", "WKDY", "105", "1"),
        TripRow("T109", "WKDY", "109", "1"), TripRow("T117", "WKDY", "117", "1"),
        TripRow("T115", "WKDY", "115", "1"), TripRow("T104", "WKDY", "104", "0"),
        TripRow("T125", "WKDY", "125", "1") >>,
   calendar |->
     << [service_id |-> "WKDY", start_date |-> 20250101, end_date |-> 20251231] @@ Weekdays,
        [service_id |-> "WKND", start_date |-> 20250101, end_date |-> 20251231] @@ Weekend >>,
   calendarDates |-> <<>>,
   lastFetch |-> <<>>]

\* What the feed says about one trip: nothing, 13 min late, 5 min early, one
\* hour late, or 10 min late and then skipped.
FeedChoice(tripId, what) ==
  IF what = "none" THEN <<>>
  ELSE <<[tripId |-> tripId,
          stopTimeUpdates |->
            IF what = "late13" THEN
              <<[departure |-> Delay(780), arrival |-> Delay(720), scheduleRelationship |-> "SCHEDULED"]>>
            ELSE IF what = "early5" THEN
              <<[departure |-> <<>>, arrival |-> Delay(-300), scheduleRelationship |-> "SCHEDULED"]>>
            ELSE IF what = "late60" THEN
              <<[departure |-> Delay(3600), arrival |-> <<>>, scheduleRelationship |-> NULL]>>
            ELSE
              <<[departure |-> Delay(600), arrival |-> <<>>, scheduleRelationship |-> NULL],
                [departure |-> <<>>, arrival |-> <<>>, scheduleRelationship |-> "SKIPPED"]>>]>>

SelectionAlerts ==
  { <<>>, "103" :> [delayMinutes |-> 5], ("101" :> [delayMinutes |-> 5]) @@ ("107" :> [delayMinutes |-> -3]) }

StationPairs ==
  { <<"sf", "diridon">>, <<"diridon", "sf">>, <<"sf", "palo-alto">>, <<"sf", "gilroy">> }

\* 07:30 PDT on Monday 10 March and on Saturday 15 March 2025.
QueryMornings == { UTC(2025, 3, 10, 14, 30, 0), UTC(2025, 3, 15, 14, 30, 0) }

InitSel ==
  \E morning \in QueryMornings, tick \in 0..MaxTick, pair \in StationPairs,
     f101 \in {"none", "late13", "early5", "late60"}, f107 \in {"none", "late13", "skipped"},
     alerts \in SelectionAlerts :
    LET date == morning + tick * 900
    IN  /\ gtfsCache = [Timetable EXCEPT !.lastFetch = <<morning - 3600>>]
        /\ args = [originStationId      |-> pair[1],
                   destinationStationId |-> pair[2],
                   date                 |-> date,
                   now                  |-> date,
                   tripUpdates          |-> FeedChoice("T107", f107) \o FeedChoice("T101", f101),
                   caltrainAlerts       |-> alerts]
        /\ trains = <<>>
        /\ ret = NULL
        /\ pc = "call"
        /\ StoreIdle

\* getScheduledTrains when fetchGTFSData answers from the valid cache: trains is
\* the array before the sort, ret the value returned.
GetScheduledTrains ==
  /\ pc = "call"
  /\ CacheIsValid(gtfsCache, args.now)
  /\ LET Return(r) == trains' = r.trains /\ ret' = r.result
     IN  Return(getScheduledTrains(gtfsCache, args.originStationId, args.destinationStationId,
                                   args.date, args.tripUpdates, args.caltrainAlerts))
  /\ pc' = "done"
  /\ UNCHANGED <<gtfsCache, args>>
  /\ UNCHANGED storeVars

NextSel == GetScheduledTrains

SpecSel == InitSel /\ [][NextSel]_vars

\* The candidate trips of the query: active service, direction of travel, a
\* stop_times row at the origin stop and one at the destination stop.
QueryDirection ==
  IF StationIndex(args.originStationId) > StationIndex(args.destinationStationId) THEN "0" ELSE "1"

IsCandidate(trip) ==
  /\ StationKnown(args.originStationId) /\ StationKnown(args.destinationStationId)
  /\ trip.service_id = getActiveServiceId(args.date, gtfsCache.calendar, gtfsCache.calendarDates)
  /\ trip.direction_id = QueryDirection
  /\ \E st \in DOMAIN gtfsCache.stopTimes :
        /\ gtfsCache.stopTimes[st].trip_id = trip.trip_id
        /\ gtfsCache.stopTimes[st].stop_id =
             findGTFSStopId(getStationById(args.originStationId).code, QueryDirection)
  /\ \E st \in DOMAIN gtfsCache.stopTimes :
        /\ gtfsCache.stopTimes[st].trip_id = trip.trip_id
        /\ gtfsCache.stopTimes[st].stop_id =
             findGTFSStopId(getStationById(args.destinationStationId).code, QueryDirection)

Candidates == { i \in DOMAIN gtfsCache.trips : IsCandidate(gtfsCache.trips[i]) }

\* Scheduled and actual instants of candidate trip i.
Scheduled(i) ==
  LET trip == gtfsCache.trips[i]
      o == CHOOSE st \in DOMAIN gtfsCache.stopTimes :
             /\ gtfsCache.stopTimes[st].trip_id = trip.trip_id
             /\ gtfsCache.stopTimes[st].stop_id =
                  findGTFSStopId(getStationById(args.originStationId).code, QueryDirection)
      d == CHOOSE st \in DOMAIN gtfsCache.stopTimes :
             /\ gtfsCache.stopTimes[st].trip_id = trip.trip_id
             /\ gtfsCache.stopTimes[st].stop_id =
                  findGTFSStopId(getStationById(args.destinationStationId).code, QueryDirection)
  IN  TripTimes(args.date, gtfsCache.stopTimes[o].departure_time, gtfsCache.stopTimes[d].arrival_time)

Actual(i) ==
  Overlay(gtfsCache.trips[i], Scheduled(i).departureDate, Scheduled(i).arrivalDate,
          args.tripUpdates, args.caltrainAlerts)

Kept(i) == \E k \in DOMAIN trains : trains[k].tripId = gtfsCache.trips[i].trip_id

\* C9: a candidate trip is kept exactly when its actual arrival is not before
\* the query instant and its actual departure is not before it or it has a
\* delay.
C9_InclusionTest ==
  pc = "done" =>
    \A i \in Candidates :
      Kept(i) <=>
        /\ Actual(i).actualArrivalTimeMs >= args.date
        /\ \/ Actual(i).actualDepartureTimeMs >= args.date
           \/ Actual(i).actualDepartureTimeMs # Scheduled(i).departureDate

\* One query with a trip that has arrived (dropped), a trip that has left on
\* time and is still under way (dropped), and a trip that has left, is delayed
\* and is under way (kept).
C9_Witness ==
  /\ pc = "done"
  /\ \E i \in Candidates :
        Actual(i).actualArrivalTimeMs < args.date /\ ~Kept(i)
  /\ \E i \in Candidates :
        /\ Scheduled(i).departureDate < args.date
        /\ Scheduled(i).arrivalDate >= args.date
        /\ Actual(i).actualDepartureTimeMs = Scheduled(i).departureDate
        /\ ~Kept(i)
  /\ \E i \in Candidates :
        /\ Actual(i).actualDepartureTimeMs < args.date
        /\ Actual(i).actualDepartureTimeMs # Scheduled(i).departureDate
        /\ Actual(i).actualArrivalTimeMs >= args.date
        /\ Kept(i)

DepartureOf(train) == ParseISOString(train.departureTime)

Min(a, b) == IF a < b THEN a ELSE b

\* C10: the result has at most 5 trains, in ascending order of scheduled
\* departure, and they are the min(5, n) earliest of the n trains kept.
C10_SortedAndLimited ==
  pc = "done" =>
    /\ Len(ret) <= 5
    /\ Len(ret) = Min(5, Len(trains))
    /\ \A i, j \in DOMAIN ret : i < j => DepartureOf(ret[i]) <= DepartureOf(ret[j])
    /\ \A i \in DOMAIN ret : \E k \in DOMAIN trains : trains[k] = ret[i]
    /\ \A i, j \in DOMAIN ret : i # j => ret[i].tripId # ret[j].tripId
    /\ \A k \in DOMAIN trains :
          (\A i \in DOMAIN ret : ret[i] # trains[k])
            => \A i \in DOMAIN ret : DepartureOf(ret[i]) <= DepartureOf(trains[k])

\* More than 5 trains kept, pushed out of departure order; T101 runs an hour
\* late, so that it leaves after T103 does, and still comes first.
C10_Witness ==
  /\ pc = "done"
  /\ Len(trains) > 5
  /\ Len(ret) = 5
  /\ \E k \in 1..(Len(trains) - 1) : DepartureOf(trains[k]) > DepartureOf(trains[k + 1])
  /\ ret[1].tripId = "T101"
  /\ ret[2].tripId = "T103"
  /\ getTripDelay(args.tripUpdates, "T101", NULL).delay = 60
  /\ DepartureOf(ret[1]) + 3600 > DepartureOf(ret[2])

(***************************************************************************)
(* Classification under bounded inputs: two weekday trips from San         *)
(* Francisco to San Jose Diridon with a chosen number of stop_times rows.  *)
(***************************************************************************)

\* Largest number of stop_times rows of the first trip.
MaxStops == 21

\* Southbound stops between San Francisco and San Jose Diridon.
IntermediateStops ==
  << "70022", "70032", "70042", "70052", "70062", "70082", "70092", "70102",
     "70112", "70122", "70132", "70142", "70162", "70172", "70192", "70202",
     "70212", "70222", "70232", "70242", "70252", "70272", "70282", "70292" >>

\* n stop_times rows of a trip: San Francisco first, San Jose Diridon last.
StopRows(trip_id, hour, n) ==
  [k \in 1..n |->
     Row(trip_id,
         IF k = 1 THEN "70012" ELSE IF k = n THEN "70262" ELSE IntermediateStops[k - 1],
         <<hour, 2 * k, 0>>, k)]

TypedTimetable(n1, n2) ==
  [stopTimes |-> StopRows("T301", 8, n1) \o StopRows("T302", 9, n2),
   trips     |-> << TripRow("T301", "WKDY", "301", "1"), TripRow("T302", "WKDY", "302", "1") >>,
   calendar  |-> Timetable.calendar,
   calendarDates |-> <<>>,
   lastFetch |-> <<>>]

InitType ==
  \E n1 \in 2..MaxStops, n2 \in {12, 13, 19, 20}, tick \in 0..3,
     f301 \in {"none", "late13", "skipped"} :
    LET date == UTC(2025, 3, 10, 14, 30, 0) + tick * 900
    IN  /\ gtfsCache = [TypedTimetable(n1, n2) EXCEPT !.lastFetch = <<date - 3600>>]
        /\ args = [originStationId      |-> "sf",
                   destinationStationId |-> "diridon",
                   date                 |-> date,
                   now                  |-> date,
                   tripUpdates          |-> FeedChoice("T301", f301),
                   caltrainAlerts       |-> <<>>,
                   stopRows             |-> ("T301" :> n1) @@ ("T302" :> n2)]
        /\ trains = <<>>
        /\ ret = NULL
        /\ pc = "call"
        /\ StoreIdle

SpecType == InitType /\ [][NextSel]_vars

\* C11: the type of a returned train follows from the number of stop_times
\* rows of its trip alone: Local from 20 rows on, Limited from 13 to 19 rows,
\* Express below 13.
C11_TypeByStopCount ==
  pc = "done" =>
    \A i \in DOMAIN ret :
      /\ args.stopRows[ret[i].tripId] >= 20 => ret[i].type = "Local"
      /\ args.stopRows[ret[i].tripId] \in 13..19 => ret[i].type = "Limited"
      /\ args.stopRows[ret[i].tripId] < 13 => ret[i].type = "Express"

\* Both trips are returned, one with exactly 20 rows (Local) and one with
\* exactly 19 (Limited).
C11_Witness ==
  /\ pc = "done"
  /\ Len(ret) = 2
  /\ args.stopRows["T301"] = 20 /\ ret[1].tripId = "T301" /\ ret[1].type = "Local"
  /\ args.stopRows["T302"] = 19 /\ ret[2].tripId = "T302" /\ ret[2].type = "Limited"

(***************************************************************************)
(* The store: fetchGTFSData and loadLocalGTFSData.  A remote response is   *)
(* what instrumentedFetch, AdmZip and zip.getEntry give; a local directory *)
(* is what fs.readFile gives.  A file is the sequence of rows parseCSV     *)
(* makes of it.                                                            *)
(***************************************************************************)

\* The remote attempt reaches "return true": the fetch resolves, the response
\* is OK, the archive opens and the three required entries are present.
RemoteLoadSucceeds(response) ==
  /\ ~response.networkError
  /\ response.ok
  /\ response.zip
  /\ {"stop_times.txt", "trips.txt", "calendar.txt"} \subseteq DOMAIN response.files

\* The assignments of the remote branch with a table of the cache left as it was.
RemoteWrite_KeepCalendar(cache, files, now) ==
  [stopTimes     |-> files["stop_times.txt"],
   trips         |-> files["trips.txt"],
   calendar      |-> cache.calendar,
   calendarDates |-> IF "calendar_dates.txt" \in DOMAIN files
                       THEN files["calendar_dates.txt"] ELSE <<>>,
   lastFetch     |-> <<now>>]

\* The assignments of the remote branch, made without an await in between.
RemoteWrite(cache, files, now) ==
  [stopTimes     |-> files["stop_times.txt"],
   trips         |-> files["trips.txt"],
   calendar      |-> files["calendar.txt"],
   calendarDates |-> IF "calendar_dates.txt" \in DOMAIN files
                       THEN files["calendar_dates.txt"] ELSE <<>>,
   lastFetch     |-> <<now>>]

\* loadLocalGTFSData returns true: the four readFile calls resolve.
LocalLoadSucceeds(files) ==
  {"stop_times.txt", "trips.txt", "calendar.txt", "calendar_dates.txt"} \subseteq DOMAIN files

\* The local load that keeps the newer of the cache and the files.
LocalWrite_KeepNewer(cache, files, now) ==
  IF Len(cache.lastFetch) > 0 /\ Len(cache.trips) > 0 THEN cache
  ELSE [stopTimes     |-> files["stop_times.txt"],
        trips         |-> files["trips.txt"],
        calendar      |-> files["calendar.txt"],
        calendarDates |-> files["calendar_dates.txt"],
        lastFetch     |-> <<now>>]

\* The assignments of loadLocalGTFSData, made after the last await.
LocalWrite(cache, files, now) ==
  [stopTimes     |-> files["stop_times.txt"],
   trips         |-> files["trips.txt"],
   calendar      |-> files["calendar.txt"],
   calendarDates |-> files["calendar_dates.txt"],
   lastFetch     |-> <<now>>]

\* new Date(NaN), the Invalid Date: it has no instant as its time value.
InvalidDate == [time |-> <<>>]

\* date.toISOString() among the attributes of startSpan, ahead of the try
\* block, raises a RangeError for the Invalid Date.
StartSpanThrows(date) == date = InvalidDate

\* A failed attempt that empties the cache.
FailedLoad_Wipes(cache) == [stopTimes |-> <<>>, trips |-> <<>>, calendar |-> <<>>, calendarDates |-> <<>>, lastFetch |-> <<>>]

\* What a failed attempt leaves in the cache: the exception is raised ahead
\* of the assignments, and the catch blocks assign nothing.
FailedLoad(cache) == cache

\* A reload that never asks the remote source.
FirstAttempt_LocalOnly(key) == "local"

\* The first step of a reload: the remote fetch when the credential is
\* configured, the local load otherwise.
FirstAttempt(key) == IF key THEN "remote" ELSE "local"

\* The rest of getScheduledTrains after "await fetchGTFSData()".
AfterFetch(loaded, cache, originStationId, destinationStationId, date) ==
  IF ~loaded THEN [trains |-> <<>>, result |-> <<>>]
  ELSE getScheduledTrains(cache, originStationId, destinationStationId, date, <<>>, <<>>)

(***************************************************************************)
(* Two concurrent callers of getScheduledTrains on one store.  A step of a *)
(* request runs from one await to the next; the clock advances between     *)
(* steps.                                                                  *)
(***************************************************************************)

\* Largest number of calls of getScheduledTrains in a behaviour.
MaxCalls == 3

\* Largest number of half days the clock advances.
MaxClock == 2

Requests == {1, 2}

HalfDay == 12 * 3600

\* Thursday 13 March 2025, 07:30 PDT.
StoreEpoch == UTC(2025, 3, 13, 14, 30, 0)

StoreCalendar(start_date) ==
  << [service_id |-> "WKDY", start_date |-> start_date, end_date |-> 20251231] @@ Weekdays >>

StoreException(date) ==
  << [service_id |-> "WKDY", date |-> date, exception_type |-> "2"] >>

\* A morning and an evening trip from San Francisco to San Jose Diridon.
StoreStopTimes(morning, evening, minute, first) ==
  << Row(morning, "70012", first, 1),               Row(morning, "70262", <<9, minute, 0>>, 2),
     Row(evening, "70012", <<20, minute, 0>>, 1),   Row(evening, "70262", <<21, minute, 0>>, 2) >>

StoreTrips(morning, evening) ==
  << TripRow(morning, "WKDY", morning, "1"), TripRow(evening, "WKDY", evening, "1") >>

\* The bundled copy under data/gtfs, whole or with calendar_dates.txt missing;
\* it removes the service of Friday 14 March 2025.
LocalDirectories ==
  [bundle |->
     ("stop_times.txt" :> StoreStopTimes("L1", "L2", 0, <<8, 0, 0>>))
       @@ ("trips.txt" :> StoreTrips("L1", "L2"))
       @@ ("calendar.txt" :> StoreCalendar(20250101))
       @@ ("calendar_dates.txt" :> StoreException(20250314)),
   unreadable |->
     ("stop_times.txt" :> StoreStopTimes("L1", "L2", 0, <<8, 0, 0>>))
       @@ ("trips.txt" :> StoreTrips("L1", "L2"))
       @@ ("calendar.txt" :> StoreCalendar(20250101))]

RemoteFiles(morning, evening, minute, first, start_date, exception) ==
  ("stop_times.txt" :> StoreStopTimes(morning, evening, minute, first))
    @@ ("trips.txt" :> StoreTrips(morning, evening))
    @@ ("calendar.txt" :> StoreCalendar(start_date))
    @@ ("calendar_dates.txt" :> StoreException(exception))

Response(networkError, ok, zip, files) ==
  [networkError |-> networkError, ok |-> ok, zip |-> zip, files |-> files]

\* What the remote source may answer: two archives, an archive without
\* calendar_dates.txt, one whose trips.txt has the header line only, one with a
\* missing departure time, and the four failures.
RemoteResponses ==
  [v1 |-> Response(FALSE, TRUE, TRUE, RemoteFiles("R1", "R2", 10, <<8, 10, 0>>, 20250201, 20251127)),
   nodates |-> Response(FALSE, TRUE, TRUE,
                 [f \in {"stop_times.txt", "trips.txt", "calendar.txt"} |->
                    RemoteFiles("R5", "R6", 30, <<8, 30, 0>>, 20250302, 20251225)[f]]),
   notrips |-> Response(FALSE, TRUE, TRUE,
                 [RemoteFiles("R7", "R8", 40, <<8, 40, 0>>, 20250303, 20251226)
                    EXCEPT !["trips.txt"] = <<>>]),
   badtime |-> Response(FALSE, TRUE, TRUE, RemoteFiles("R9", "R10", 50, <<>>, 20250304, 20251227)),
   offline |-> Response(TRUE, FALSE, FALSE, <<>>),
   http503 |-> Response(FALSE, FALSE, FALSE, <<>>),
   badzip  |-> Response(FALSE, TRUE, FALSE, <<>>),
   nocalendar |-> Response(FALSE, TRUE, TRUE,
                 [f \in {"stop_times.txt", "trips.txt", "calendar_dates.txt"} |->
                    RemoteFiles("R1", "R2", 10, <<8, 10, 0>>, 20250201, 20251127)[f]])]

StorePairs == { <<"sf", "diridon">>, <<"sf", "millbrae">>, <<"sf", "atlantis">> }

\* No load has completed.
NoLoad == [req |-> 0, step |-> "none", data |-> NULL, at |-> 0]

\* What a request did at a step of its current call.
Event(step, data, ok) == [step |-> step, data |-> data, ok |-> ok]

\* The requests whose reload is under way.
Reloading == { q \in Requests : pc[q] \in {"remote", "local"} }

\* The event joins those of the current call of request r; a load that has
\* written the cache becomes the last load.
Record(r, event) ==
  [last  |-> IF event.ok /\ event.step \in {"remote", "local"}
               THEN [req |-> r, step |-> event.step, data |-> event.data, at |-> clock]
               ELSE loads.last,
   calls |-> [loads.calls EXCEPT ![r] = Append(@, event)]]

CallsMade == args[1].calls + args[2].calls

InitStore ==
  /\ gtfsCache = EmptyCache
  /\ \E pair \in StorePairs :
       args = [r \in Requests |->
                 [originStationId |-> pair[1], destinationStationId |-> pair[2],
                  date |-> StoreEpoch, loaded |-> <<>>, calls |-> 0]]
  /\ trains = [r \in Requests |-> <<>>]
  /\ ret = [r \in Requests |-> <<>>]
  /\ pc = [r \in Requests |-> "idle"]
  /\ clock = StoreEpoch
  /\ apiKey \in BOOLEAN
  /\ loads = [last |-> NoLoad, calls |-> [r \in Requests |-> <<>>]]

\* getScheduledTrains is called, with the current instant or with the Invalid
\* Date, and runs up to the first await: the creation of the span, the cache
\* check of fetchGTFSData, and the issue of the remote fetch or of the local
\* load when the cache is not valid.
Call(r) ==
  /\ pc[r] \in {"idle", "done"}
  /\ CallsMade < MaxCalls
  /\ \E date \in {[time |-> <<clock>>], InvalidDate} :
       IF StartSpanThrows(date)
         THEN /\ args' = [args EXCEPT ![r].date = clock, ![r].loaded = <<>>, ![r].calls = @ + 1]
              /\ pc' = [pc EXCEPT ![r] = "done"]
              /\ loads' = [loads EXCEPT !.calls[r] = <<[step |-> "thrown", with |-> {}]>>]
              /\ ret' = [ret EXCEPT ![r] = Thrown]
         ELSE /\ args' = [args EXCEPT
                            ![r].date = date.time[1],
                            ![r].loaded = IF CacheIsValid(gtfsCache, clock) THEN <<TRUE>> ELSE <<>>,
                            ![r].calls = @ + 1]
              /\ pc' = [pc EXCEPT ![r] = IF CacheIsValid(gtfsCache, clock) THEN "resume"
                                         ELSE FirstAttempt(apiKey)]
              /\ loads' = [loads EXCEPT !.calls[r] =
                             <<[step |-> IF CacheIsValid(gtfsCache, clock) THEN "cached" ELSE "expired",
                                with |-> Reloading]>>]
              /\ ret' = [ret EXCEPT ![r] = <<>>]
  /\ trains' = [trains EXCEPT ![r] = <<>>]
  /\ UNCHANGED <<gtfsCache, clock, apiKey>>

\* The remote fetch settles: the tables and the timestamp are written, or the
\* local load is started.
RemoteLoad(r) ==
  /\ pc[r] = "remote"
  /\ \E name \in DOMAIN RemoteResponses :
       IF RemoteLoadSucceeds(RemoteResponses[name])
         THEN /\ gtfsCache' = RemoteWrite(gtfsCache, RemoteResponses[name].files, clock)
              /\ args' = [args EXCEPT ![r].loaded = <<TRUE>>]
              /\ pc' = [pc EXCEPT ![r] = "resume"]
              /\ loads' = Record(r, Event("remote", name, TRUE))
         ELSE /\ pc' = [pc EXCEPT ![r] = "local"]
              /\ loads' = Record(r, Event("remote", name, FALSE))
              /\ gtfsCache' = FailedLoad(gtfsCache)
              /\ UNCHANGED args
  /\ UNCHANGED <<trains, ret, clock, apiKey>>

\* loadLocalGTFSData settles: the tables and the timestamp are written and
\* true is returned, or false is returned.
LocalLoad(r) ==
  /\ pc[r] = "local"
  /\ \E name \in DOMAIN LocalDirectories :
       IF LocalLoadSucceeds(LocalDirectories[name])
         THEN /\ gtfsCache' = LocalWrite(gtfsCache, LocalDirectories[name], clock)
              /\ args' = [args EXCEPT ![r].loaded = <<TRUE>>]
              /\ loads' = Record(r, Event("local", name, TRUE))
         ELSE /\ args' = [args EXCEPT ![r].loaded = <<FALSE>>]
              /\ loads' = Record(r, Event("local", name, FALSE))
              /\ gtfsCache' = FailedLoad(gtfsCache)
  /\ pc' = [pc EXCEPT ![r] = "resume"]
  /\ UNCHANGED <<trains, ret, clock, apiKey>>

\* The continuation after "await fetchGTFSData()", which has no await.
Resume(r) ==
  /\ pc[r] = "resume"
  /\ LET Return(a) == /\ trains' = [trains EXCEPT ![r] = a.trains]
                      /\ ret' = [ret EXCEPT ![r] = a.result]
     IN  Return(AfterFetch(args[r].loaded[1], gtfsCache, args[r].originStationId,
                           args[r].destinationStationId, args[r].date))
  /\ pc' = [pc EXCEPT ![r] = "done"]
  /\ UNCHANGED <<gtfsCache, args, clock, apiKey, loads>>

Tick ==
  /\ clock < StoreEpoch + MaxClock * HalfDay
  /\ clock' = clock + HalfDay
  /\ UNCHANGED <<gtfsCache, args, trains, ret, pc, apiKey, loads>>

NextStore ==
  \/ \E r \in Requests : Call(r)
  \/ \E r \in Requests : RemoteLoad(r)
  \/ \E r \in Requests : LocalLoad(r)
  \/ \E r \in Requests : Resume(r)
  \/ Tick

SpecStore == InitStore /\ [][NextStore]_vars

\* Request r takes the step from the await to its return.
Returns(r) == pc[r] = "resume" /\ pc'[r] = "done"

\* The cases in which nothing can be resolved, as request r meets them when it
\* resumes: the load failed, the dataset has no trips, a station is unknown,
\* the query falls on the Friday whose service the local copy removes, no
\* trip calls at Millbrae, or a departure time is missing.
NothingToResolve(r) ==
  \/ args[r].loaded = <<FALSE>>
  \/ Len(gtfsCache.trips) = 0
  \/ args[r].destinationStationId = "atlantis"
  \/ /\ gtfsCache.calendarDates = StoreException(20250314)
     /\ args[r].date - StoreEpoch \in {2 * HalfDay, 3 * HalfDay}
  \/ args[r].destinationStationId = "millbrae"
  \/ \E i \in DOMAIN gtfsCache.stopTimes : gtfsCache.stopTimes[i].departure_time = <<>>

\* C12: no call of getScheduledTrains ends in an exception.
C12_NeverThrows ==
  [][\A r \in Requests : (pc[r] # "done" /\ pc'[r] = "done") => ret'[r] # Thrown]_vars

\* After the await of fetchGTFSData nothing is thrown: the empty sequence is
\* returned when the load failed, the dataset has no trips, no service is
\* active, a station is unknown, no trip serves both stops, or the trip loop
\* raised an exception.
EmptyInsteadOfThrowing ==
  [][\A r \in Requests :
       Returns(r) => /\ ret'[r] # Thrown
                     /\ NothingToResolve(r) => ret'[r] = <<>>]_vars

\* Request 1 has loaded the archive with the missing departure time, nobody
\* has loaded since, and its weekday query from San Francisco to San Jose
\* got the empty sequence; request 2 got trains for the same query earlier.
CaughtInTripLoop ==
  /\ pc[1] = "done" /\ pc[2] = "done"
  /\ loads.last = [req |-> 1, step |-> "remote", data |-> "badtime", at |-> args[1].date]
  /\ args[1].destinationStationId = "diridon"
  /\ args[1].date = StoreEpoch
  /\ ret[1] = <<>>
  /\ Len(ret[2]) = 2

\* Request r calls fetchGTFSData: its call of getScheduledTrains gets past the
\* creation of the span.
CallsFetch(r) == pc[r] \in {"idle", "done"} /\ pc'[r] \in {"resume", "remote", "local"}

\* The timestamp is set and less than 24 hours old.
Fresh == gtfsCache.lastFetch # <<>> /\ clock - gtfsCache.lastFetch[1] < 86400

\* C13: fetchGTFSData called on a snapshot less than 24 hours old returns true
\* at once, attempts no load during the call and leaves the tables and the
\* timestamp as they are; called with the timestamp unset or 24 hours old or
\* older, it starts a reload.
C13_CacheWindow ==
  [][\A r \in Requests :
       /\ CallsFetch(r) =>
            IF Fresh
              THEN /\ pc'[r] = "resume"
                   /\ args'[r].loaded = <<TRUE>>
                   /\ gtfsCache' = gtfsCache
                   /\ loads'.last = loads.last
                   /\ loads'.calls[r] = <<[step |-> "cached", with |-> Reloading]>>
              ELSE /\ pc'[r] \in {"remote", "local"}
                   /\ loads'.calls[r][1].step = "expired"
       /\ (Len(loads'.calls[r]) > 0 /\ loads'.calls[r][1].step = "cached")
            => Len(loads'.calls[r]) = 1]_vars

\* Request 1 was answered from the snapshot when it was 12 hours old; request 2
\* has called when it was exactly 24 hours old and is reloading.
C13_Witness ==
  /\ gtfsCache.lastFetch = <<StoreEpoch>>
  /\ pc[1] = "done"
  /\ args[1].date = StoreEpoch + HalfDay
  /\ loads.calls[1] = <<[step |-> "cached", with |-> {}]>>
  /\ Len(ret[1]) > 0
  /\ pc[2] \in {"remote", "local"}
  /\ args[2].date = StoreEpoch + 2 * HalfDay
  /\ loads.calls[2][1].step = "expired"

\* The loads request r has attempted in its current call, in order.
Attempts(r) == Tail(loads.calls[r])

\* The answers of the remote source that make the attempt fail: a network
\* error, a status that is not OK, an archive that cannot be opened, an
\* archive without calendar.txt.
RemoteFailures == {"offline", "http503", "badzip", "nocalendar"}

RemoteFailed(event) == event.step = "remote" /\ ~event.ok /\ event.data \in RemoteFailures

RemoteLoaded(event) == event.step = "remote" /\ event.ok /\ event.data \notin RemoteFailures

\* C14: a reload asks the remote source exactly when the credential is
\* configured, and once; it loads the local copy exactly when there is no
\* credential or the remote attempt has failed, and never after a remote
\* load that succeeded.
C14_RemoteThenLocal ==
  \A r \in Requests :
    (Len(loads.calls[r]) > 0 /\ loads.calls[r][1].step = "expired") =>
      /\ pc[r] = "remote" => apiKey /\ Attempts(r) = <<>>
      /\ pc[r] = "local" =>
            IF apiKey THEN Len(Attempts(r)) = 1 /\ RemoteFailed(Attempts(r)[1])
            ELSE Attempts(r) = <<>>
      /\ pc[r] \in {"resume", "done"} =>
            IF apiKey
              THEN \/ Len(Attempts(r)) = 1 /\ RemoteLoaded(Attempts(r)[1])
                   \/ /\ Len(Attempts(r)) = 2
                      /\ RemoteFailed(Attempts(r)[1])
                      /\ Attempts(r)[2].step = "local"
              ELSE Len(Attempts(r)) = 1 /\ Attempts(r)[1].step = "local"

\* With the credential configured, request 1 has loaded the remote archive and
\* nothing else; request 2 found no calendar.txt in the archive and has
\* loaded the local copy.
C14_Witness ==
  /\ apiKey
  /\ pc[1] = "done" /\ pc[2] = "done"
  /\ Attempts(1) = <<Event("remote", "v1", TRUE)>>
  /\ Attempts(2) = <<Event("remote", "nocalendar", FALSE), Event("local", "bundle", TRUE)>>

\* Request r takes a step in which a load attempt of its fails.
AttemptFails(r) ==
  /\ pc[r] \in {"remote", "local"}
  /\ Len(loads'.calls[r]) = Len(loads.calls[r]) + 1
  /\ ~loads'.calls[r][Len(loads'.calls[r])].ok

\* The reload of request r has failed totally: the local load has failed,
\* after a failed remote attempt when the credential is configured.
FailedTotally(r) ==
  /\ Len(loads.calls[r]) > 1
  /\ \A i \in 2..Len(loads.calls[r]) : ~loads.calls[r][i].ok
  /\ loads.calls[r][Len(loads.calls[r])].step = "local"

\* C15: a load attempt that fails leaves the four tables and the timestamp as
\* they were; a reload that has failed totally makes fetchGTFSData return
\* false; as long as no load has ever succeeded the cache is the empty one.
C15_FailureKeepsSnapshot ==
  [][\A r \in Requests :
       /\ AttemptFails(r) => gtfsCache' = gtfsCache
       /\ (AttemptFails(r) /\ pc'[r] = "resume") => args'[r].loaded = <<FALSE>>
       /\ loads'.last = NoLoad => gtfsCache' = EmptyCache]_vars

\* The snapshot loaded at the start is 24 hours old, the reload of request 2
\* has failed totally and the snapshot is still there; request 1, which
\* loaded it, got trains.
C15_Witness ==
  /\ clock = StoreEpoch + 2 * HalfDay
  /\ pc[1] = "done" /\ Len(ret[1]) > 0
  /\ loads.last = [req |-> 1, step |-> "remote", data |-> "v1", at |-> StoreEpoch]
  /\ pc[2] = "resume"
  /\ args[2].date = clock
  /\ FailedTotally(2)
  /\ args[2].loaded = <<FALSE>>
  /\ gtfsCache = RemoteWrite(EmptyCache, RemoteResponses["v1"].files, StoreEpoch)

\* C16: a request that found the snapshot of the store expired (24 hours old
\* or older at the call) and whose reload has failed totally is answered from
\* that snapshot.
C16_StaleSnapshotAnswers ==
  [][\A r \in Requests :
       (/\ Returns(r)
        /\ args[r].loaded = <<FALSE>>
        /\ gtfsCache.lastFetch # <<>>
        /\ args[r].date - gtfsCache.lastFetch[1] >= 86400) =>
         ret'[r] = getScheduledTrains(gtfsCache, args[r].originStationId,
                                      args[r].destinationStationId, args[r].date,
                                      <<>>, <<>>).result]_vars

\* What a completed load has put into the store, from the files it read.
TablesOf(load) ==
  IF load = NoLoad THEN EmptyCache
  ELSE LET Tables(files) ==
             [stopTimes     |-> files["stop_times.txt"],
              trips         |-> files["trips.txt"],
              calendar      |-> files["calendar.txt"],
              calendarDates |-> IF load.data = "nodates" THEN <<>> ELSE files["calendar_dates.txt"],
              lastFetch     |-> <<load.at>>]
       IN  Tables(IF load.step = "remote" THEN RemoteResponses[load.data].files
                  ELSE LocalDirectories[load.data])

\* C17: at every step the four tables and the timestamp of the store are
\* those of one completed load, the last one, and a request that resumes
\* computes its result from them in that step.
C17_OneSnapshotPerRequest ==
  [][/\ gtfsCache' = TablesOf(loads'.last)
     /\ \A r \in Requests :
          Returns(r) =>
            ret'[r] = AfterFetch(args[r].loaded[1], TablesOf(loads.last), args[r].originStationId,
                                 args[r].destinationStationId, args[r].date).result]_vars

\* Request 1 is still reloading, since the start; request 2 has loaded the
\* remote archive meanwhile, has called again and got both trains of that
\* archive from the cache.
C17_Witness ==
  /\ pc[1] \in {"remote", "local"}
  /\ args[1].calls = 1
  /\ pc[2] = "done"
  /\ args[2].calls = 2
  /\ loads.calls[2] = <<[step |-> "cached", with |-> {1}]>>
  /\ loads.last = [req |-> 2, step |-> "remote", data |-> "v1", at |-> StoreEpoch]
  /\ Len(ret[2]) = 2
  /\ ret[2][1].tripId = "R1" /\ ret[2][2].tripId = "R2"

\* Request r found the cache expired while request q was reloading.
ExpiredDuring(r, q) ==
  /\ Len(loads.calls[r]) > 0
  /\ loads.calls[r][1].step = "expired"
  /\ q \in loads.calls[r][1].with
  /\ Len(loads.calls[q]) > 0
  /\ loads.calls[q][1].step = "expired"

\* The reload of request r has ended with a load.
Reloaded(r) ==
  /\ pc[r] \in {"resume", "done"}
  /\ Len(Attempts(r)) > 0
  /\ Attempts(r)[Len(Attempts(r))].ok

\* C18: when a request finds the cache expired while another is reloading,
\* both reload; once both have loaded, the store holds the tables and the
\* timestamp of the load that finished last, which is one of the two.
C18_LastWriterWins ==
  \A r, q \in Requests :
    ExpiredDuring(r, q) =>
      /\ pc[r] \in {"resume", "done"} => Len(Attempts(r)) > 0
      /\ pc[q] \in {"resume", "done"} => Len(Attempts(q)) > 0
      /\ (Reloaded(r) /\ Reloaded(q)) =>
            /\ loads.last.req \in {r, q}
            /\ loads.last.step = Attempts(loads.last.req)[Len(Attempts(loads.last.req))].step
            /\ loads.last.data = Attempts(loads.last.req)[Len(Attempts(loads.last.req))].data
            /\ gtfsCache = TablesOf(loads.last)

\* Both requests found the empty cache expired; request 1 loaded the remote
\* archive, request 2 got a 503 and loaded the local copy later: the store
\* holds the local copy.
C18_Witness ==
  /\ apiKey
  /\ ExpiredDuring(2, 1)
  /\ pc[1] = "done" /\ pc[2] = "done"
  /\ Attempts(1) = <<Event("remote", "v1", TRUE)>>
  /\ Attempts(2) = <<Event("remote", "http503", FALSE), Event("local", "bundle", TRUE)>>
  /\ loads.last.req = 2
  /\ gtfsCache.trips = StoreTrips("L1", "L2")
  /\ gtfsCache.calendarDates = StoreException(20250314)
  /\ Len(ret[1]) = 2 /\ ret[1][1].tripId = "R1"
  /\ Len(ret[2]) = 2 /\ ret[2][1].tripId = "L1"

(***************************************************************************)
(* The stop identifier mapper on its own: every code of the table, the     *)
(* spellings with lower-case letters and codes the table does not have,    *)
(* in each direction.                                                      *)
(***************************************************************************)

UnknownCodes == {"OAKLAND", "XX", "7001", "STANFORD2", "SAN JOSE", ""}

StationCodes == DOMAIN codeMapping \cup DOMAIN UpperCased \cup UnknownCodes

DirectionIds == {"0", "1"}

InitStop ==
  \E stationCode \in StationCodes, directionId \in DirectionIds :
    /\ gtfsCache = EmptyCache
    /\ args = [stationCode |-> stationCode, directionId |-> directionId]
    /\ trains = <<>>
    /\ ret = <<>>
    /\ pc = "call"
    /\ StoreIdle

FindGTFSStopId ==
  /\ pc = "call"
  /\ ret' = <<findGTFSStopId(args.stationCode, args.directionId)>>
  /\ pc' = "done"
  /\ UNCHANGED <<gtfsCache, args, trains>>
  /\ UNCHANGED storeVars

NextStop == FindGTFSStopId

SpecStop == InitStop /\ [][NextStop]_vars

\* The upper-cased code is a key of the table.
InTable(stationCode) ==
  \E key \in DOMAIN codeMapping : key = ToUpperCase(stationCode)

\* B: the base identifier of the table, or the code as given.
BaseOf(stationCode) ==
  IF InTable(stationCode)
    THEN codeMapping[CHOOSE key \in DOMAIN codeMapping : key = ToUpperCase(stationCode)]
    ELSE stationCode

\* C19 as stated: the identifier is B followed by '1' for direction '0' and
\* by '2' otherwise, for every code.
C19_Original ==
  pc = "done" =>
    ret = <<BaseOf(args.stationCode) \o (IF args.directionId = "0" THEN "1" ELSE "2")>>

\* C19: the identifier is B followed by '1' for direction '0' and by '2'
\* otherwise, except for the base 253774 of the table (Stanford), which is
\* followed by '0' for direction '0' and by '4' otherwise; it is never empty.
C19_BasePlusSuffix ==
  pc = "done" =>
    /\ ret # <<"">>
    /\ IF InTable(args.stationCode) /\ BaseOf(args.stationCode) = "253774"
         THEN ret = <<"253774" \o (IF args.directionId = "0" THEN "0" ELSE "4")>>
         ELSE ret = <<BaseOf(args.stationCode) \o (IF args.directionId = "0" THEN "1" ELSE "2")>>

\* Stanford in lower case, southbound.
C19_Witness ==
  /\ pc = "done"
  /\ args = [stationCode |-> "stanford", directionId |-> "1"]
  /\ ret = <<"2537744">>

\* A code the table does not have keeps its spelling.
C19_UnknownCode ==
  /\ pc = "done"
  /\ args = [stationCode |-> "oakland", directionId |-> "0"]
  /\ ret = <<"oakland1">>

(***************************************************************************)
(* Selection with the origin and the destination at the same station as    *)
(* well as at different ones.                                              *)
(***************************************************************************)

SequencePairs == StationPairs \cup { <<"sf", "sf">>, <<"diridon", "diridon">> }

InitSeq ==
  \E morning \in QueryMornings, tick \in 0..MaxTick, pair \in SequencePairs :
    /\ gtfsCache = [Timetable EXCEPT !.lastFetch = <<morning - 3600>>]
    /\ args = [originStationId      |-> pair[1],
               destinationStationId |-> pair[2],
               date                 |-> morning + tick * 900,
               now                  |-> morning + tick * 900,
               tripUpdates          |-> <<>>,
               caltrainAlerts       |-> <<>>]
    /\ trains = <<>>
    /\ ret = NULL
    /\ pc = "call"
    /\ StoreIdle

SpecSeq == InitSeq /\ [][NextSel]_vars

\* The stop-time rows of a trip at a stop.
RowsAt(tripId, stopId) ==
  { i \in DOMAIN gtfsCache.stopTimes :
      gtfsCache.stopTimes[i].trip_id = tripId /\ gtfsCache.stopTimes[i].stop_id = stopId }

\* C20: every train returned comes from a trip with a row at the origin stop
\* and a row at the destination stop, and the row the train departs from has
\* a smaller stop sequence than the row it arrives at.
C20_OriginBeforeDestination ==
  pc = "done" =>
    \A k \in DOMAIN ret :
      /\ RowsAt(ret[k].tripId, findGTFSStopId(getStationById(args.originStationId).code, QueryDirection)) # {}
      /\ RowsAt(ret[k].tripId, findGTFSStopId(getStationById(args.destinationStationId).code, QueryDirection)) # {}
      /\ \A o \in RowsAt(ret[k].tripId, findGTFSStopId(getStationById(args.originStationId).code, QueryDirection)),
            d \in RowsAt(ret[k].tripId, findGTFSStopId(getStationById(args.destinationStationId).code, QueryDirection)) :
            gtfsCache.stopTimes[o].stop_sequence < gtfsCache.stopTimes[d].stop_sequence

(***************************************************************************)
(* Tracing wrappers (lib/otel-utils): instrumentedFetch and                *)
(* instrumentFunction around a fetch and a function that resolve or reject *)
(* as the environment decides.                                             *)
(***************************************************************************)

\* new URL(url).hostname for the urls of the model; <<>> where new URL throws.
Hostname ==
  ("https://api.511.org/transit/datafeeds" :> <<"api.511.org">>) @@
  ("https://api.example.com/test" :> <<"api.example.com">>) @@
  ("http://localhost:3000/api/trains" :> <<"localhost">>) @@
  ("/api/trains" :> <<>>) @@ ("api/weather?station=sf" :> <<>>)

RequestOptions == { [method |-> <<>>], [method |-> <<"GET">>], [method |-> <<"POST">>] }

Responses ==
  { [id |-> "r200", status |-> 200, ok |-> TRUE], [id |-> "r404", status |-> 404, ok |-> FALSE],
    [id |-> "r503", status |-> 503, ok |-> FALSE] }

\* What a promise can be rejected with: an Error, a string, null.
Rejections ==
  { [type |-> "Error", message |-> "Network error"], [type |-> "string", message |-> "timeout"],
    [type |-> "null", message |-> ""] }

Results == { [id |-> "success"], [id |-> "undefined"] }

Fulfilled(value) == [state |-> "fulfilled", value |-> <<value>>, reason |-> <<>>]

Rejected(reason) == [state |-> "rejected", value |-> <<>>, reason |-> <<reason>>]

\* The settlements of the wrapped fetch and of the wrapped function.
FetchOutcomes == { Fulfilled(r) : r \in Responses } \cup { Rejected(e) : e \in Rejections }

FunctionOutcomes == { Fulfilled(r) : r \in Results } \cup { Rejected(e) : e \in Rejections }

InvalidURL == [type |-> "TypeError", message |-> "Invalid URL"]

NoMessage == [type |-> "TypeError", message |-> "Cannot read properties of null"]

\* recordSpanError reads error.message unless the error is a string.
RecordSpanErrorThrows(error) == error.type = "null"

\* The wrapper that takes a response that is not ok for a failure.
instrumentedFetch_RejectNotOk(url, outcome) ==
  IF outcome.state = "fulfilled" /\ outcome.value[1].ok /\ Hostname[url] # <<>> THEN outcome
  ELSE IF outcome.state = "fulfilled" /\ Hostname[url] # <<>>
    THEN Rejected([type |-> "Error", message |-> "HTTP error"])
  ELSE IF outcome.state = "rejected" /\ RecordSpanErrorThrows(outcome.reason[1]) THEN Rejected(NoMessage)
  ELSE IF Hostname[url] = <<>> THEN Rejected(InvalidURL)
  ELSE outcome

\* instrumentedFetch after 'await fetch(url, options)' has settled with
\* outcome: the metrics take new URL(url).hostname in the try block and again
\* in the catch block.
instrumentedFetch(url, outcome) ==
  IF outcome.state = "fulfilled" /\ Hostname[url] # <<>> THEN outcome
  ELSE IF outcome.state = "rejected" /\ RecordSpanErrorThrows(outcome.reason[1]) THEN Rejected(NoMessage)
  ELSE IF Hostname[url] = <<>> THEN Rejected(InvalidURL)
  ELSE outcome

\* instrumentFunction after 'await fn()' has settled with outcome.
instrumentFunction(outcome) ==
  IF outcome.state = "fulfilled" THEN outcome
  ELSE IF RecordSpanErrorThrows(outcome.reason[1]) THEN Rejected(NoMessage)
  ELSE outcome

\* args: the wrapper called, its arguments and what the wrapped call will
\* settle with; loads: the calls made to fetch or to fn.
InitWrap ==
  /\ gtfsCache = EmptyCache
  /\ \/ \E url \in DOMAIN Hostname, options \in RequestOptions, outcome \in FetchOutcomes :
          args = [wrapper |-> "instrumentedFetch", url |-> url, options |-> options, outcome |-> outcome]
     \/ \E name \in {"loadLocalGTFSData", "test.function"}, outcome \in FunctionOutcomes :
          args = [wrapper |-> "instrumentFunction", url |-> name, options |-> [method |-> <<>>],
                  outcome |-> outcome]
  /\ trains = <<>>
  /\ ret = <<>>
  /\ pc = "call"
  /\ clock = 0
  /\ apiKey = FALSE
  /\ loads = <<>>

\* const response = await fetch(url, options)
CallFetch ==
  /\ pc = "call"
  /\ args.wrapper = "instrumentedFetch"
  /\ loads' = Append(loads, [url |-> args.url, options |-> args.options])
  /\ pc' = "await"
  /\ UNCHANGED <<gtfsCache, args, trains, ret, clock, apiKey>>

SettleFetch ==
  /\ pc = "await"
  /\ args.wrapper = "instrumentedFetch"
  /\ ret' = <<instrumentedFetch(args.url, args.outcome)>>
  /\ pc' = "done"
  /\ UNCHANGED <<gtfsCache, args, trains, clock, apiKey, loads>>

\* const result = await fn()
CallFunction ==
  /\ pc = "call"
  /\ args.wrapper = "instrumentFunction"
  /\ loads' = Append(loads, [url |-> args.url, options |-> args.options])
  /\ pc' = "await"
  /\ UNCHANGED <<gtfsCache, args, trains, ret, clock, apiKey>>

SettleFunction ==
  /\ pc = "await"
  /\ args.wrapper = "instrumentFunction"
  /\ ret' = <<instrumentFunction(args.outcome)>>
  /\ pc' = "done"
  /\ UNCHANGED <<gtfsCache, args, trains, clock, apiKey, loads>>

NextWrap == CallFetch \/ SettleFetch \/ CallFunction \/ SettleFunction

SpecWrap == InitWrap /\ [][NextWrap]_vars

\* The wrapped call was made once, with the arguments given.
CalledOnce == loads = <<[url |-> args.url, options |-> args.options]>>

\* C21 as stated: the wrapper makes the wrapped call once and settles as that
\* call settles, with the same response, result or error, whatever the url
\* and the error.
C21_Original ==
  pc = "done" => (CalledOnce /\ ret = <<args.outcome>>)

\* new URL(url) succeeds, or the wrapper is not the one that calls it.
UrlParses == args.wrapper = "instrumentFunction" \/ Hostname[args.url] # <<>>

\* The wrapped call did not reject with null.
ReasonHasMessage ==
  args.outcome.state = "rejected" => args.outcome.reason[1].type # "null"

\* C21: the wrapper makes the wrapped call exactly once with the arguments
\* given; when the url is one that new URL parses and the wrapped call does
\* not reject with null, the wrapper settles as the wrapped call settles,
\* with the same response (also one that is not ok) or result or error.
C21_Transparent ==
  pc = "done" =>
    /\ CalledOnce
    /\ (UrlParses /\ ReasonHasMessage) => ret = <<args.outcome>>

\* A 503 comes back as it is.
C21_Witness ==
  /\ pc = "done"
  /\ args.wrapper = "instrumentedFetch"
  /\ args.url = "https://api.511.org/transit/datafeeds"
  /\ args.outcome = Fulfilled([id |-> "r503", status |-> 503, ok |-> FALSE])
  /\ ret = <<args.outcome>>

\* fetch resolves for a relative url and the wrapper rejects.
C21_RelativeUrl ==
  /\ pc = "done"
  /\ args.wrapper = "instrumentedFetch"
  /\ args.url = "/api/trains"
  /\ args.outcome.state = "fulfilled"
  /\ ret = <<Rejected(InvalidURL)>>

(***************************************************************************)
(* Selection with stop-time entries that lack their delay fields in the    *)
(* feed of trips T101 (08:00) and T107 (09:00).                            *)
(***************************************************************************)

\* An entry without arrival and departure, one with a departure that has no
\* delay, the same two marked skipped and canceled, and entries with delays.
Blank == [departure |-> <<>>, arrival |-> <<>>, scheduleRelationship |-> NULL]

BlankDeparture == [departure |-> Delay(0), arrival |-> <<>>, scheduleRelationship |-> "SCHEDULED"]

BlankSkipped == [departure |-> <<>>, arrival |-> <<>>, scheduleRelationship |-> "SKIPPED"]

BlankCanceled == [departure |-> Delay(0), arrival |-> <<>>, scheduleRelationship |-> "CANCELED"]

Late13 == [departure |-> Delay(780), arrival |-> Delay(720), scheduleRelationship |-> "SCHEDULED"]

Early5 == [departure |-> <<>>, arrival |-> Delay(-300), scheduleRelationship |-> "SCHEDULED"]

Late60 == [departure |-> Delay(3600), arrival |-> <<>>, scheduleRelationship |-> NULL]

EntryLists ==
  { <<Blank>>, <<Late13>>, <<Blank, Late13>>, <<Late13, BlankDeparture>>, <<Early5, Blank, Late13>>,
    <<BlankSkipped, Late13>>, <<Late13, BlankCanceled>>, <<BlankDeparture, Late60>> }

\* The feed: an update for each trip that has entries.
UpdatesOf(tripId, entries) ==
  IF entries = <<>> THEN <<>> ELSE <<[tripId |-> tripId, stopTimeUpdates |-> entries]>>

InitFeed ==
  \E tick \in 0..MaxTick, e101 \in EntryLists \cup {<<>>}, e107 \in EntryLists \cup {<<>>},
     alerts \in { <<>>, "101" :> [delayMinutes |-> 5] } :
    /\ gtfsCache = [Timetable EXCEPT !.lastFetch = <<UTC(2025, 3, 10, 13, 30, 0)>>]
    /\ args = [originStationId      |-> "sf",
               destinationStationId |-> "diridon",
               date                 |-> UTC(2025, 3, 10, 14, 30, 0) + tick * 900,
               now                  |-> UTC(2025, 3, 10, 14, 30, 0) + tick * 900,
               tripUpdates          |-> UpdatesOf("T107", e107) \o UpdatesOf("T101", e101),
               caltrainAlerts       |-> alerts]
    /\ trains = <<>>
    /\ ret = NULL
    /\ pc = "call"
    /\ StoreIdle

SpecFeed == InitFeed /\ [][NextSel]_vars

\* The entry has neither an arrival delay nor a departure delay.
LacksDelays(stu) ==
  /\ stu.departure = <<>> \/ stu.departure[1].delay = 0
  /\ stu.arrival = <<>> \/ stu.arrival[1].delay = 0

\* The feed without the entries that lack their delays.
WithoutBlank(tripUpdates) ==
  [u \in DOMAIN tripUpdates |->
     [tripUpdates[u] EXCEPT !.stopTimeUpdates = SelectSeq(@, LAMBDA stu : ~LacksDelays(stu))]]

\* The feed without the entries that lack their delays and are not marked
\* skipped or canceled.
WithoutMalformed(tripUpdates) ==
  [u \in DOMAIN tripUpdates |->
     [tripUpdates[u] EXCEPT !.stopTimeUpdates =
        SelectSeq(@, LAMBDA stu : ~(LacksDelays(stu) /\ ~IsCancelMark(stu)))]]

\* C24 as stated: with entries that lack their delay fields in the feed, the
\* delay of every trip and the trains returned are what they are without
\* those entries.
C24_Original ==
  pc = "done" =>
    /\ \A id \in {"T101", "T107", "T103"} :
         getTripDelay(args.tripUpdates, id, NULL).delay
           = getTripDelay(WithoutBlank(args.tripUpdates), id, NULL).delay
    /\ ret = getScheduledTrains(gtfsCache, args.originStationId, args.destinationStationId,
                                args.date, WithoutBlank(args.tripUpdates), args.caltrainAlerts).result

\* C24: with entries that lack their delay fields and are not marked skipped
\* or canceled in the feed, no error is raised, and the delay of every trip
\* and the trains returned are what they are without those entries.
C24_BlankEntryIgnored ==
  pc = "done" =>
    /\ \A id \in {"T101", "T107", "T103"} :
         getTripDelay(args.tripUpdates, id, NULL).delay
           = getTripDelay(WithoutMalformed(args.tripUpdates), id, NULL).delay
    /\ ret = getScheduledTrains(gtfsCache, args.originStationId, args.destinationStationId,
                                args.date, WithoutMalformed(args.tripUpdates),
                                args.caltrainAlerts).result

\* 08:15: T101 has left at 08:13, 13 min late by the entry behind the blank
\* one, and is returned; T107 with a blank entry only is returned on time.
C24_Witness ==
  /\ pc = "done"
  /\ args.date = UTC(2025, 3, 10, 15, 15, 0)
  /\ args.tripUpdates = UpdatesOf("T107", <<Blank>>) \o UpdatesOf("T101", <<Blank, Late13>>)
  /\ getTripDelay(args.tripUpdates, "T101", NULL).delay = 13
  /\ Len(ret) = 5
  /\ ret[1].tripId = "T101"
  /\ \E k \in DOMAIN ret : ret[k].tripId = "T107"

(***************************************************************************)
(* parseCSV.  A text is a sequence of characters; so is a cell, and a      *)
(* record is a function from the header's names to cells.                  *)
(***************************************************************************)

\* Longest text parsed.
MaxText == 6

Chars == {"a", "b", ",", " ", "\n"}

Whitespace == {" ", "\n"}

\* String.prototype.trim
RECURSIVE TrimStart(_)
TrimStart(str) ==
  IF Len(str) > 0 /\ str[1] \in Whitespace THEN TrimStart(Tail(str)) ELSE str

RECURSIVE TrimEnd(_)
TrimEnd(str) ==
  IF Len(str) > 0 /\ str[Len(str)] \in Whitespace THEN TrimEnd(SubSeq(str, 1, Len(str) - 1)) ELSE str

Trim(str) == TrimEnd(TrimStart(str))

\* str.split(separator) with the piece begun before position i in current:
\* the empty string gives one empty piece.
RECURSIVE SplitFrom(_, _, _, _)
SplitFrom(str, separator, i, current) ==
  IF i > Len(str) THEN <<current>>
  ELSE IF str[i] = separator THEN <<current>> \o SplitFrom(str, separator, i + 1, <<>>)
  ELSE SplitFrom(str, separator, i + 1, Append(current, str[i]))

Split(str, separator) == SplitFrom(str, separator, 1, <<>>)

\* line.split(',').map(v => v.trim())
TrimmedCells(line) ==
  LET Map(cells) == [k \in DOMAIN cells |-> Trim(cells[k])]
  IN  Map(Split(line, ","))

\* headers.forEach((header, index) => { obj[header] = values[index] || '' }):
\* a later column of the same name overwrites an earlier one.
RowObject(headers, values) ==
  [header \in { headers[k] : k \in DOMAIN headers } |->
     LET At(index) == IF index <= Len(values) THEN values[index] ELSE <<>>
     IN  At(CHOOSE k \in DOMAIN headers :
              headers[k] = header /\ \A later \in (k + 1)..Len(headers) : headers[later] # header)]

\* parseCSV that leaves out the rows with fewer cells than the header.
parseCSV_DropShortRows(csvText) ==
  LET Long(lines, headers) ==
        SelectSeq([i \in 1..(Len(lines) - 1) |-> i + 1],
                  LAMBDA n : Len(TrimmedCells(lines[n])) >= Len(headers))
      Rows(lines, headers, long) ==
        [i \in DOMAIN long |-> RowObject(headers, TrimmedCells(lines[long[i]]))]
      Parse(lines) ==
        IF Len(lines) < 2 THEN <<>>
        ELSE Rows(lines, TrimmedCells(lines[1]), Long(lines, TrimmedCells(lines[1])))
  IN  Parse(Split(Trim(csvText), "\n"))

parseCSV(csvText) ==
  LET Rows(lines, headers) ==
        [i \in 1..(Len(lines) - 1) |-> RowObject(headers, TrimmedCells(lines[i + 1]))]
      Parse(lines) ==
        IF Len(lines) < 2 THEN <<>> ELSE Rows(lines, TrimmedCells(lines[1]))
  IN  Parse(Split(Trim(csvText), "\n"))

InitCsv ==
  \E n \in 0..MaxText : \E csvText \in [1..n -> Chars] :
    /\ gtfsCache = EmptyCache
    /\ args = [csvText |-> csvText]
    /\ trains = <<>>
    /\ ret = <<>>
    /\ pc = "call"
    /\ StoreIdle

ParseCSV ==
  /\ pc = "call"
  /\ ret' = parseCSV(args.csvText)
  /\ pc' = "done"
  /\ UNCHANGED <<gtfsCache, args, trains>>
  /\ UNCHANGED storeVars

NextCsv == ParseCSV

SpecCsv == InitCsv /\ [][NextCsv]_vars

\* The text read by positions.  Slice(lo, hi) is args.csvText from lo to hi
\* without the white space at its two ends.
Inked(lo, hi) == { k \in lo..hi : args.csvText[k] \notin Whitespace }

Slice(lo, hi) ==
  IF Inked(lo, hi) = {} THEN <<>>
  ELSE SubSeq(args.csvText,
              CHOOSE k \in Inked(lo, hi) : \A m \in Inked(lo, hi) : k <= m,
              CHOOSE k \in Inked(lo, hi) : \A m \in Inked(lo, hi) : k >= m)

\* First and last position of the text that is not white space; 1 and 0 when
\* there is none.
TextStart ==
  IF Inked(1, Len(args.csvText)) = {} THEN 1
  ELSE CHOOSE k \in Inked(1, Len(args.csvText)) : \A m \in Inked(1, Len(args.csvText)) : k <= m

TextEnd ==
  IF Inked(1, Len(args.csvText)) = {} THEN 0
  ELSE CHOOSE k \in Inked(1, Len(args.csvText)) : \A m \in Inked(1, Len(args.csvText)) : k >= m

\* The positions of character c between lo and hi.
Marks(c, lo, hi) == { k \in lo..hi : args.csvText[k] = c }

\* The piece number n of lo..hi cut at character c runs from PieceStart to
\* PieceEnd; it is empty when PieceEnd is PieceStart - 1.
PieceStart(c, lo, hi, n) ==
  IF n = 1 THEN lo
  ELSE 1 + CHOOSE k \in Marks(c, lo, hi) : Cardinality({ m \in Marks(c, lo, hi) : m < k }) = n - 2

PieceEnd(c, lo, hi, n) ==
  IF n = Cardinality(Marks(c, lo, hi)) + 1 THEN hi
  ELSE (CHOOSE k \in Marks(c, lo, hi) : Cardinality({ m \in Marks(c, lo, hi) : m < k }) = n - 1) - 1

LineCount == Cardinality(Marks("\n", TextStart, TextEnd)) + 1

LineStart(n) == PieceStart("\n", TextStart, TextEnd, n)

LineEnd(n) == PieceEnd("\n", TextStart, TextEnd, n)

CellCount(line) == Cardinality(Marks(",", LineStart(line), LineEnd(line))) + 1

\* The trimmed cell at a column of a line.
Cell(line, column) ==
  Slice(PieceStart(",", LineStart(line), LineEnd(line), column),
        PieceEnd(",", LineStart(line), LineEnd(line), column))

\* C25: parseCSV returns the empty list for a text of fewer than two lines,
\* and otherwise one record per data line in input order; the keys of every
\* record are the header's column names, the value of a column (the last one
\* of its name) is the trimmed cell at its position in the data line, and
\* the empty string when the line has no cell there.
C25_OneRecordPerLine ==
  pc = "done" =>
    IF LineCount < 2 THEN ret = <<>>
    ELSE
      /\ Len(ret) = LineCount - 1
      /\ \A i \in 1..(LineCount - 1) :
           /\ DOMAIN ret[i] = { Cell(1, column) : column \in 1..CellCount(1) }
           /\ \A column \in 1..CellCount(1) :
                (\A later \in (column + 1)..CellCount(1) : Cell(1, later) # Cell(1, column)) =>
                  ret[i][Cell(1, column)] =
                    IF column <= CellCount(i + 1) THEN Cell(i + 1, column) ELSE <<>>

\* Header 'a ,b' and the data line 'a': column a is 'a', column b is ''.
C25_Witness ==
  /\ pc = "done"
  /\ args.csvText = <<"a", " ", ",", "b", "\n", "a">>
  /\ ret = << (<<"a">> :> <<"a">>) @@ (<<"b">> :> <<>>) >>

\* An empty line between two others is a data line of its own.
C25_EmptyLine ==
  /\ pc = "done"
  /\ args.csvText = <<"a", "\n", "\n", "b">>
  /\ ret = << (<<"a">> :> <<>>), (<<"a">> :> <<"b">>) >>

(***************************************************************************)
(* Selection in both directions, on a weekday and on a Saturday, with      *)
(* headsigns that agree or disagree with the direction of the trips.       *)
(***************************************************************************)

Headsigns == {"", "San Francisco", "San Jose Diridon", "Northbound"}

DirectionPairs ==
  { <<"sf", "diridon">>, <<"diridon", "sf">>, <<"sf", "palo-alto">>, <<"palo-alto", "millbrae">>,
    <<"diridon", "diridon">> }

\* The timetable with the headsign on every trip.
Headed(timetable, headsign) ==
  [timetable EXCEPT !.trips = [i \in DOMAIN @ |-> [@[i] EXCEPT !.trip_headsign = headsign]]]

InitDir ==
  \E morning \in QueryMornings, tick \in 0..MaxTick, pair \in DirectionPairs, headsign \in Headsigns :
    /\ gtfsCache = [Headed(Timetable, headsign) EXCEPT !.lastFetch = <<morning - 3600>>]
    /\ args = [originStationId      |-> pair[1],
               destinationStationId |-> pair[2],
               date                 |-> morning + tick * 900,
               now                  |-> morning + tick * 900,
               tripUpdates          |-> <<>>,
               caltrainAlerts       |-> <<>>]
    /\ trains = <<>>
    /\ ret = NULL
    /\ pc = "call"
    /\ StoreIdle

SpecDir == InitDir /\ [][NextSel]_vars

\* The place of a station in the list, which runs from north to south.
PlaceOf(id) == CHOOSE i \in DOMAIN stations : stations[i].id = id

OriginLiesAfter == PlaceOf(args.originStationId) > PlaceOf(args.destinationStationId)

\* C26: every train returned comes from a trip of the service that is active
\* on the query date, with direction_id '0' when the origin lies after the
\* destination in the station list and '1' otherwise, and is labelled
\* 'Northbound' in the first case and 'Southbound' in the second, whatever
\* the trip's headsign.
C26_ServiceAndDirection ==
  pc = "done" =>
    \A k \in DOMAIN ret :
      /\ \E i \in DOMAIN gtfsCache.trips :
           /\ gtfsCache.trips[i].trip_id = ret[k].tripId
           /\ gtfsCache.trips[i].service_id
                = getActiveServiceId(args.date, gtfsCache.calendar, gtfsCache.calendarDates)
           /\ gtfsCache.trips[i].direction_id = (IF OriginLiesAfter THEN "0" ELSE "1")
      /\ ret[k].direction = (IF OriginLiesAfter THEN "Northbound" ELSE "Southbound")

\* From San Jose to San Francisco on the weekday: the two northbound trips,
\* labelled Northbound under the headsign 'San Jose Diridon'.
C26_Witness ==
  /\ pc = "done"
  /\ args.originStationId = "diridon" /\ args.destinationStationId = "sf"
  /\ gtfsCache.trips[1].trip_headsign = "San Jose Diridon"
  /\ Len(ret) = 2
  /\ ret[1].tripId = "T102" /\ ret[2].tripId = "T104"
  /\ ret[1].direction = "Northbound" /\ ret[2].direction = "Northbound"

\* From San Francisco on the Saturday: the weekend trip only, labelled
\* Southbound under the headsign 'San Francisco'.
C26_Weekend ==
  /\ pc = "done"
  /\ args.originStationId = "sf" /\ args.destinationStationId = "diridon"
  /\ gtfsCache.trips[1].trip_headsign = "San Francisco"
  /\ Len(ret) = 1
  /\ ret[1].tripId = "T201"
  /\ ret[1].direction = "Southbound"

\* The entries of an update before its first skipped or canceled one.
BeforeCancelMark(stus) ==
  IF \E k \in DOMAIN stus : IsCancelMark(stus[k])
    THEN SubSeq(stus, 1, (CHOOSE k \in DOMAIN stus :
                            IsCancelMark(stus[k]) /\ \A j \in 1..(k - 1) : ~IsCancelMark(stus[j])) - 1)
    ELSE stus

\* The feed with every update cut before its first skipped or canceled entry.
WithoutCancelMarks(tripUpdates) ==
  [u \in DOMAIN tripUpdates |->
     [tripUpdates[u] EXCEPT !.stopTimeUpdates = BeforeCancelMark(@)]]

MarkedCancelled(tripId) ==
  \E u \in DOMAIN args.tripUpdates :
    /\ args.tripUpdates[u].tripId = tripId
    /\ \E k \in DOMAIN args.tripUpdates[u].stopTimeUpdates :
         IsCancelMark(args.tripUpdates[u].stopTimeUpdates[k])

\* C27: the trains returned under a feed with skipped or canceled entries are
\* those returned under the same feed cut before these entries: a trip marked
\* cancelled is dealt with by the delay of its entries before the mark alone.
C27_CancelledTripStays ==
  pc = "done" =>
    /\ trains = getScheduledTrains(gtfsCache, args.originStationId, args.destinationStationId,
                                   args.date, WithoutCancelMarks(args.tripUpdates),
                                   args.caltrainAlerts).trains
    /\ ret = SortAndSlice(trains)

\* 08:15: T101, 13 min late and then canceled, has left at 08:13 and is
\* returned; T107, skipped at its first entry, is returned as scheduled.
C27_Witness ==
  /\ pc = "done"
  /\ args.date = UTC(2025, 3, 10, 15, 15, 0)
  /\ args.tripUpdates = UpdatesOf("T107", <<BlankSkipped, Late13>>)
                          \o UpdatesOf("T101", <<Late13, BlankCanceled>>)
  /\ MarkedCancelled("T101") /\ MarkedCancelled("T107")
  /\ getTripDelay(args.tripUpdates, "T101", NULL) = [delay |-> 13, status |-> "cancelled"]
  /\ ret[1].tripId = "T101"
  /\ \E k \in DOMAIN ret : ret[k].tripId = "T107"

(***************************************************************************)
(* TrainList (components/TrainList.tsx): the effect on [originId,          *)
(* destinationId], its interval and the fetches in flight.  args holds the *)
(* props and the pair of the running interval, loads the fetches started,  *)
(* pc the position of each, trains and ret the state shown, clock the      *)
(* number of renders with new props.                                       *)
(***************************************************************************)

\* Most fetches started and most changes of the props.
MaxFetches == 4

MaxRenders == 3

PropPairs == { <<"sf", "diridon">>, <<"sf", "palo-alto">>, <<"", "">>, <<"sf", "">> }

\* useState defaults.
ListState == [loading |-> FALSE, error |-> <<>>, isMockData |-> FALSE, isMockSchedule |-> FALSE]

\* What /api/trains answers to request number id for a pair.
ResponseData(pair, id) ==
  [trains         |-> <<[origin |-> pair[1], destination |-> pair[2], request |-> id]>>,
   isMockData     |-> pair[2] = "palo-alto",
   isMockSchedule |-> pair[2] = "palo-alto" /\ id > 1]

InitList ==
  /\ gtfsCache = EmptyCache
  /\ args = [originId |-> "", destinationId |-> "", interval |-> <<>>]
  /\ trains = <<>>
  /\ ret = ListState
  /\ pc = <<>>
  /\ clock = 0
  /\ apiKey = FALSE
  /\ loads = <<>>

\* fetchTrains up to 'await fetch(...)': setLoading(true), setError(null).
StartFetch(pair) ==
  /\ loads' = Append(loads, [pair |-> pair, outcome |-> "pending"])
  /\ pc' = Append(pc, "fetch")
  /\ ret' = [ret EXCEPT !.loading = TRUE, !.error = <<>>]

\* A render with other props: the cleanup clears the interval, the effect
\* runs again.
Render ==
  /\ clock < MaxRenders
  /\ \E pair \in PropPairs :
       /\ pair # <<args.originId, args.destinationId>>
       /\ IF pair[1] = "" \/ pair[2] = ""
            THEN /\ trains' = <<>>
                 /\ args' = [originId |-> pair[1], destinationId |-> pair[2], interval |-> <<>>]
                 /\ UNCHANGED <<loads, pc, ret>>
            ELSE /\ Len(loads) < MaxFetches
                 /\ StartFetch(pair)
                 /\ args' = [originId |-> pair[1], destinationId |-> pair[2], interval |-> <<pair>>]
                 /\ UNCHANGED trains
  /\ clock' = clock + 1
  /\ UNCHANGED <<gtfsCache, apiKey>>

\* setInterval(fetchTrains, 60000) fires: fetchTrains of the effect that set it.
IntervalFires ==
  /\ args.interval # <<>>
  /\ Len(loads) < MaxFetches
  /\ StartFetch(args.interval[1])
  /\ UNCHANGED <<gtfsCache, args, trains, clock, apiKey>>

\* catch and finally of fetchTrains.
Failed(id, outcome, message) ==
  /\ ret' = [ret EXCEPT !.error = <<message>>, !.loading = FALSE]
  /\ trains' = <<>>
  /\ pc' = [pc EXCEPT ![id] = "done"]
  /\ loads' = [loads EXCEPT ![id].outcome = outcome]

\* 'await fetch(...)' settles: rejected, not ok, or ok and on to response.json().
FetchSettles ==
  /\ \E id \in DOMAIN pc :
       /\ pc[id] = "fetch"
       /\ \/ Failed(id, "rejected", "Failed to fetch")
          \/ Failed(id, "not ok", "Failed to fetch train data")
          \/ /\ pc' = [pc EXCEPT ![id] = "json"]
             /\ UNCHANGED <<trains, ret, loads>>
  /\ UNCHANGED <<gtfsCache, args, clock, apiKey>>

\* 'await response.json()' settles; the setters and finally.
JsonSettles ==
  /\ \E id \in DOMAIN pc :
       /\ pc[id] = "json"
       /\ \/ Failed(id, "bad json", "Unexpected end of JSON input")
          \/ /\ trains' = ResponseData(loads[id].pair, id).trains
             /\ ret' = [ret EXCEPT !.isMockData = ResponseData(loads[id].pair, id).isMockData,
                                   !.isMockSchedule = ResponseData(loads[id].pair, id).isMockSchedule,
                                   !.loading = FALSE]
             /\ pc' = [pc EXCEPT ![id] = "done"]
             /\ loads' = [loads EXCEPT ![id].outcome = "ok"]
  /\ UNCHANGED <<gtfsCache, args, clock, apiKey>>

NextList == Render \/ IntervalFires \/ FetchSettles \/ JsonSettles

SpecList == InitList /\ [][NextList]_vars

\* Every fetch started has settled, and there is one.
AllSettled == Len(pc) > 0 /\ \A id \in DOMAIN pc : pc[id] = "done"

PairShown == args.originId # "" /\ args.destinationId # ""

\* C28: with a pair in the props and every fetch settled, the trains, the
\* error and the mock flags shown are those of the response to the fetch
\* started last, which is a fetch for the pair of the props.
C28_LatestResponseShown ==
  (AllSettled /\ PairShown) =>
    /\ loads[Len(loads)].pair = <<args.originId, args.destinationId>>
    /\ IF loads[Len(loads)].outcome = "ok"
         THEN /\ trains = ResponseData(loads[Len(loads)].pair, Len(loads)).trains
              /\ ret.error = <<>>
              /\ ret.isMockData = ResponseData(loads[Len(loads)].pair, Len(loads)).isMockData
              /\ ret.isMockSchedule = ResponseData(loads[Len(loads)].pair, Len(loads)).isMockSchedule
         ELSE trains = <<>> /\ ret.error # <<>>

\* The interval that runs is the one of the pair in the props: a fetch is
\* started for that pair only.
IntervalOfCurrentPair ==
  [][(Len(loads') > Len(loads)) =>
       loads'[Len(loads')].pair = <<args'.originId, args'.destinationId>>]_vars

\* The response for the first pair came in after the one for the second pair
\* and is what the list shows.
StaleResponseShown ==
  /\ AllSettled
  /\ Len(loads) = 2
  /\ loads[1] = [pair |-> <<"sf", "palo-alto">>, outcome |-> "ok"]
  /\ loads[2] = [pair |-> <<"sf", "diridon">>, outcome |-> "ok"]
  /\ args.destinationId = "diridon"
  /\ trains = ResponseData(<<"sf", "palo-alto">>, 1).trains
  /\ ret.isMockData

====
